---- MODULE Spec2Model ----
(***************************************************************************)
(* State-machine model of the BullhornBridge client (bullhorn-bridge):     *)
(* the registration handshake with its retry loop, the single-flight       *)
(* registrationPromise slot, and the registration-gated request gateway    *)
(* (httpGET/httpPOST/httpPUT/httpDELETE/open/openList/refresh), the event  *)
(* relay (origin validation, sanitization, the listener registry) and the  *)
(* module's default instance.                                              *)
(*                                                                         *)
(* Every `await` of the source is a suspension point: the code between two *)
(* awaits runs as one atomic action.  The parent frame (post-robot peer)   *)
(* is the environment: it answers or fails every message that was sent.    *)
(* Application callbacks and listeners return normally in Spec.            *)
(***************************************************************************)
EXTENDS Integers, Sequences, FiniteSets, TLC

----------------------------------------------------------------------------
(* Bounds of the model *)

NCallers == 2
MaxCalls == 3

Callers == 1..NCallers

MaxListeners == 2          \* listeners registered at a time
MaxInbound == 2            \* inbound messages handled
MaxInstanceCalls == 4      \* calls of getBullhornBridge() and of the constructor

----------------------------------------------------------------------------
(* Program constants *)

maxRegistrationAttempts == 4
waitTime == 500
MAX_URL_LENGTH == 2000
MaxPayloadLength == 1024 * 1024

----------------------------------------------------------------------------
(* Strings.  A string is a sequence of one-character strings; a relative   *)
(* URL is such a sequence followed by `pad` filler characters "x", which   *)
(* lets a 3000-character URL be written down.  "x" occurs in none of the   *)
(* patterns the code searches for.                                         *)

Includes(s, sub) ==
    \E i \in 1..(Len(s) - Len(sub) + 1) : SubSeq(s, i, i + Len(sub) - 1) = sub

StartsWith(s, prefix) ==
    /\ Len(s) >= Len(prefix)
    /\ SubSeq(s, 1, Len(prefix)) = prefix

UrlLength(u) == Len(u.chars) + u.pad

allowedPrefixes ==
    { <<"/","e","n","t","i","t","y","/">>,
      <<"/","q","u","e","r","y","/">>,
      <<"/","s","e","a","r","c","h","/">>,
      <<"/","m","e","t","a","/">>,
      <<"/","s","e","r","v","i","c","e","s","/">> ,
      <<"/","f","i","n","d","/">> }

(* validateRelativeUrl without the whitelist of path prefixes *)
validateRelativeUrl_NoWhitelist(u) ==
    IF Includes(u.chars, <<".",".">>) \/ Includes(u.chars, <<"/","/">>) THEN FALSE
    ELSE IF ~StartsWith(u.chars, <<"/">>) THEN FALSE
    ELSE IF UrlLength(u) > MAX_URL_LENGTH THEN FALSE
    ELSE TRUE

(* validateRelativeUrl with `>=` in place of `>` in the length check *)
validateRelativeUrl_GeqLength(u) ==
    IF Includes(u.chars, <<".",".">>) \/ Includes(u.chars, <<"/","/">>) THEN FALSE
    ELSE IF ~StartsWith(u.chars, <<"/">>) THEN FALSE
    ELSE IF UrlLength(u) >= MAX_URL_LENGTH THEN FALSE
    ELSE \E prefix \in allowedPrefixes : StartsWith(u.chars, prefix)

validateRelativeUrl(u) ==
    IF Includes(u.chars, <<".",".">>) \/ Includes(u.chars, <<"/","/">>) THEN FALSE
    ELSE IF ~StartsWith(u.chars, <<"/">>) THEN FALSE
    ELSE IF UrlLength(u) > MAX_URL_LENGTH THEN FALSE
    ELSE \E prefix \in allowedPrefixes : StartsWith(u.chars, prefix)

(* The relative URLs the application passes in. *)
ValidUrl ==        \* '/entity/Candidate/123'
    [chars |-> <<"/","e","n","t","i","t","y","/","C","a","n","d","i","d","a","t","e","/","1","2","3">>,
     pad |-> 0]
TraversalUrl ==    \* '../../../etc/passwd'
    [chars |-> <<".",".","/",".",".","/",".",".","/","e","t","c","/","p","a","s","s","w","d">>,
     pad |-> 0]
AbsoluteUrl ==     \* 'http://evil.com/api'
    [chars |-> <<"h","t","t","p",":","/","/","e","v","i","l",".","c","o","m","/","a","p","i">>,
     pad |-> 0]
UnauthorizedUrl == \* '/unauthorized/endpoint'
    [chars |-> <<"/","u","n","a","u","t","h","o","r","i","z","e","d","/","e","n","d","p","o","i","n","t">>,
     pad |-> 0]
LongUrl ==         \* '/entity/' + 'x'.repeat(3000)
    [chars |-> <<"/","e","n","t","i","t","y","/">>, pad |-> 3000]
NoUrl == [chars |-> <<>>, pad |-> 0]

Urls == {ValidUrl, TraversalUrl, AbsoluteUrl, UnauthorizedUrl, LongUrl}

(* More relative URLs: a beginning, an end, and filler up to a length.     *)
UrlHeads ==
    allowedPrefixes \cup
    { <<"/","u","n","a","u","t","h","o","r","i","z","e","d","/">>,
      <<"e","n","t","i","t","y","/">>,       \* no leading '/'
      <<"/","e","n","t","i","t","y">>,       \* no trailing '/'
      <<"/","E","n","t","i","t","y","/">>,
      <<"/">> }

UrlTails ==
    { << >>, <<"1">>, <<"a","/","b">>, <<"a",".","b">>,
      <<".",".">>, <<"a",".",".","b">>, <<"/">>, <<"a","/","/","b">> }

UrlOfLength(chars, n) == [chars |-> chars, pad |-> n - Len(chars)]

UrlInputs ==
    Urls \cup
    UNION { { UrlOfLength(chars, n) :
                n \in {Len(chars), MAX_URL_LENGTH, MAX_URL_LENGTH + 1} } :
            chars \in { h \o t : h \in UrlHeads, t \in UrlTails } }

----------------------------------------------------------------------------
(* Request bodies.  A body is undefined, a string made of `plain` ordinary *)
(* characters and `quotes` double-quote characters, or the object          *)
(* {data: <such a string>}.  JSON.stringify quotes a string and escapes    *)
(* every double quote with a backslash; it returns undefined for           *)
(* undefined, whose .length then throws a TypeError.                       *)

NoBody == [kind |-> "none", plain |-> 0, quotes |-> 0]
UndefinedBody == [kind |-> "undefined", plain |-> 0, quotes |-> 0]

JSONStringifyLength(b) ==
    IF b.kind = "string" THEN b.plain + 2 * b.quotes + 2
    ELSE b.plain + 2 * b.quotes + 2 + 9      \* {"data":"..."}

(* the size check with >= in place of > *)
payloadTooLarge_Geq(b) == JSONStringifyLength(b) >= MaxPayloadLength

payloadTooLarge(b) == JSONStringifyLength(b) > MaxPayloadLength

Bodies ==
    { UndefinedBody,
      [kind |-> "string", plain |-> 3, quotes |-> 0],
      [kind |-> "string", plain |-> MaxPayloadLength - 2, quotes |-> 0],
      [kind |-> "string", plain |-> MaxPayloadLength - 3, quotes |-> 1],
      [kind |-> "object", plain |-> MaxPayloadLength + 1, quotes |-> 0] }

----------------------------------------------------------------------------
(* Origins and allowed-origin patterns (strings as character sequences) *)

Https == <<"h","t","t","p","s",":","/","/">>
Bullhorn == <<"b","u","l","l","h","o","r","n">>
DotCom == <<".","c","o","m">>

(* patterns *)
StarBullhornStaffing ==      \* 'https://*.bullhornstaffing.com'
    Https \o <<"*",".">> \o Bullhorn \o <<"s","t","a","f","f","i","n","g">> \o DotCom
StarBullhorn ==              \* 'https://*.bullhorn.com'
    Https \o <<"*",".">> \o Bullhorn \o DotCom
TestExample ==               \* 'https://test.example.com'
    Https \o <<"t","e","s","t",".","e","x","a","m","p","l","e">> \o DotCom

(* this.allowedOrigins: the default of the constructor, and a configured list *)
DefaultAllowedOrigins == <<StarBullhornStaffing, StarBullhorn>>
ConfiguredAllowedOrigins == <<StarBullhorn, TestExample>>
AllowedOriginsLists == {DefaultAllowedOrigins, ConfiguredAllowedOrigins}

(* origins of inbound messages *)
AppBullhorn ==               \* 'https://app.bullhorn.com'
    Https \o <<"a","p","p",".">> \o Bullhorn \o DotCom
EvilCom ==                   \* 'https://evil.com'
    Https \o <<"e","v","i","l">> \o DotCom
EvilBullhorn ==              \* 'https://evilbullhorn.com'
    Https \o <<"e","v","i","l">> \o Bullhorn \o DotCom
AppBullhornEvil ==           \* 'https://app.bullhorn.com.evil.com'
    AppBullhorn \o <<".">> \o <<"e","v","i","l">> \o DotCom
Origins == {AppBullhorn, TestExample, EvilCom, EvilBullhorn, AppBullhornEvil}

(* allowed.replace(/\*/g, '.*') *)
RECURSIVE ReplaceStar(_)
ReplaceStar(allowed) ==
    IF allowed = << >> THEN << >>
    ELSE (IF Head(allowed) = "*" THEN <<".", "*">> ELSE <<Head(allowed)>>)
         \o ReplaceStar(Tail(allowed))

(* one regular-expression atom against one character: '.' matches any *)
AtomMatches(atom, ch) == atom = "." \/ atom = ch

(* new RegExp('^' + pattern + '$').test(s), for a pattern made of plain    *)
(* characters, '.', and atoms followed by '*'                              *)
RECURSIVE RegExpTest(_, _)
RegExpTest(pattern, s) ==
    IF pattern = << >> THEN s = << >>
    ELSE IF Len(pattern) >= 2 /\ pattern[2] = "*"
    THEN \/ RegExpTest(Tail(Tail(pattern)), s)
         \/ /\ s # << >>
            /\ AtomMatches(pattern[1], Head(s))
            /\ RegExpTest(pattern, Tail(s))
    ELSE /\ s # << >>
         /\ AtomMatches(pattern[1], Head(s))
         /\ RegExpTest(Tail(pattern), Tail(s))

isAllowedOrigin(origin, allowedOrigins) ==
    \E i \in DOMAIN allowedOrigins :
        LET allowed == allowedOrigins[i] IN
        IF Includes(allowed, <<"*">>)
        THEN RegExpTest(ReplaceStar(allowed), origin)
        ELSE origin = allowed

----------------------------------------------------------------------------
(* Event payloads.  A JavaScript value is a record: its type t, its        *)
(* characters when it is a string, its own enumerable properties, in       *)
(* order, when it is an object or an array, its text otherwise.            *)

StringValue(chars) == [t |-> "string", text |-> "", chars |-> chars, items |-> << >>]
NumberValue(text) == [t |-> "number", text |-> text, chars |-> << >>, items |-> << >>]
NullValue == [t |-> "null", text |-> "null", chars |-> << >>, items |-> << >>]
UndefinedValue == [t |-> "undefined", text |-> "undefined", chars |-> << >>, items |-> << >>]
BooleanValue(text) == [t |-> "boolean", text |-> text, chars |-> << >>, items |-> << >>]
ErrorValue(message) == [t |-> "error", text |-> message, chars |-> << >>, items |-> << >>]
ObjectValue(items) == [t |-> "object", text |-> "", chars |-> << >>, items |-> items]
ArrayValue(elements) ==
    [t |-> "array", text |-> "", chars |-> << >>,
     items |-> [i \in DOMAIN elements |-> [key |-> ToString(i - 1), val |-> elements[i]]]]

(* a replace that removes the angle brackets only *)
StripXssChars_AngleOnly(chars) == SelectSeq(chars, LAMBDA ch : ch \notin {"<", ">"})

(* data.replace(/[<>"']/g, '') *)
StripXssChars(chars) == SelectSeq(chars, LAMBDA ch : ch \notin {"<", ">", "\"", "'"})

RECURSIVE sanitizeEventData(_)
sanitizeEventData(data) ==
    IF data.t = "string" THEN StringValue(StripXssChars(data.chars))
    ELSE IF data.t \in {"object", "array", "error"}      \* typeof data === 'object'
    THEN ObjectValue([i \in DOMAIN data.items |->
                        [key |-> data.items[i].key,
                         val |-> sanitizeEventData(data.items[i].val)]])
    ELSE data

(* payloads of inbound messages *)
ScriptString == StringValue(<<"<","b",">","h","i","'">>)      \* "<b>hi'"
PlainNumber == NumberValue("42")
NestedObject ==                                               \* {html: '<i>"', n: 42}
    ObjectValue(<< [key |-> "html", val |-> StringValue(<<"<","i",">","\"">>)],
                   [key |-> "n", val |-> PlainNumber] >>)
TagsArray ==                                                  \* ['<a>', 42]
    ArrayValue(<< StringValue(<<"<","a",">">>), PlainNumber >>)
DeepObject ==                         \* {list: [{q: '"x"'}, null], ok: true}
    ObjectValue(<< [key |-> "list",
                    val |-> ArrayValue(<< ObjectValue(<< [key |-> "q",
                                                          val |-> StringValue(<<"\"","x","\"">>)] >>),
                                          NullValue >>)],
                   [key |-> "ok", val |-> BooleanValue("true")] >>)
Payloads == {ScriptString, PlainNumber, NullValue, UndefinedValue, NestedObject,
             TagsArray, DeepObject}

(* inbound messages: every origin with a string payload, every payload     *)
(* from an origin on both lists of patterns                                *)
InboundMessages ==
    [origin : Origins, data : {ScriptString}]
    \cup [origin : {AppBullhorn}, data : Payloads]

----------------------------------------------------------------------------
(* The listener registry: event name -> listeners, in insertion order *)

Events == {"ready", "error", "customEvent", "update"}
InboundChannels == {"customEvent", "update"}
ListenedEvents == {"ready", "customEvent"}             \* the events the application listens to
Callbacks == {"listener1", "listener2"}

NoListeners == [e \in Events |-> << >>]
NoOff == [event |-> "none", callback |-> "none"]

(* on(event, callback) *)
on(listeners, event, callback) ==
    [listeners EXCEPT ![event] = Append(@, callback)]

(* listeners.indexOf(callback), counted from 1; 0 when absent *)
IndexOf(list, callback) ==
    IF \E i \in DOMAIN list : list[i] = callback
    THEN CHOOSE i \in DOMAIN list :
            /\ list[i] = callback
            /\ \A j \in 1..(i - 1) : list[j] # callback
    ELSE 0

(* off that removes every registration of the callback *)
off_All(listeners, event, callback) ==
    [listeners EXCEPT ![event] = SelectSeq(@, LAMBDA cb : cb # callback)]

(* lastIndexOf in place of indexOf, counted from 1; 0 when absent *)
LastIndexOf(list, callback) ==
    IF \E i \in DOMAIN list : list[i] = callback
    THEN CHOOSE i \in DOMAIN list :
            /\ list[i] = callback
            /\ \A j \in (i + 1)..Len(list) : list[j] # callback
    ELSE 0

(* off that removes the last registration of the callback *)
off_Last(listeners, event, callback) ==
    LET index == LastIndexOf(listeners[event], callback) IN
    IF index > 0
    THEN [listeners EXCEPT ![event] =
            SubSeq(@, 1, index - 1) \o SubSeq(@, index + 1, Len(@))]
    ELSE listeners

(* off(event, callback): splice(index, 1) at the first index *)
off(listeners, event, callback) ==
    LET index == IndexOf(listeners[event], callback) IN
    IF index > 0
    THEN [listeners EXCEPT ![event] =
            SubSeq(@, 1, index - 1) \o SubSeq(@, index + 1, Len(@))]
    ELSE listeners

(* The off() calls a listener can make while it runs. *)
OffCalls == [event : {"customEvent"}, callback : Callbacks]

(* emit(event, data) with listeners that call off(): Array.prototype     *)
(* .forEach visits the indices k < len, len being the length when the    *)
(* loop starts, reads the live array at each index, and skips an index   *)
(* the array no longer has; the listener at index k runs and its off()   *)
(* call splices the same array. Indices are from 1 here.                 *)
RECURSIVE forEach(_, _, _, _, _)
forEach(listeners, event, k, len, behaviour) ==
    IF k > len
    THEN [listeners |-> listeners, invoked |-> << >>]
    ELSE IF k > Len(listeners[event])
    THEN forEach(listeners, event, k + 1, len, behaviour)
    ELSE LET callback == listeners[event][k]
             call == behaviour[callback]
             after == IF call = NoOff THEN listeners
                      ELSE off(listeners, call.event, call.callback)
             rest == forEach(after, event, k + 1, len, behaviour)
         IN  [listeners |-> rest.listeners,
              invoked |-> <<callback>> \o rest.invoked]

(* emit whose forEach runs from the last listener to the first *)
emit_Reversed(listeners, event, data) ==
    [i \in DOMAIN listeners[event] |->
        [callback |-> listeners[event][Len(listeners[event]) + 1 - i],
         event |-> event, data |-> data]]

(* emit(event, data): the invocations listeners.forEach makes, in order *)
emit(listeners, event, data) ==
    [i \in DOMAIN listeners[event] |->
        [callback |-> listeners[event][i], event |-> event, data |-> data]]

----------------------------------------------------------------------------
(* Names *)

HttpOps == {"httpGET", "httpPOST", "httpPUT", "httpDELETE"}
BodyOps == {"httpPOST", "httpPUT"}
UiOps == {"open", "openList", "refresh"}
GatewayOps == HttpOps \cup UiOps
MessageNames == {"register"} \cup GatewayOps

ErrNotInIframe == "Not running in an iframe"
ErrFailedToRegister == "Failed to register with Bullhorn"
ErrMaxAttempts == "Failed to register with Bullhorn after maximum attempts"
ErrInitLibrary == "Failed to initialize communication library"
ErrNotInitialized == "Communication library not initialized"
ErrInvalidUrl == "Invalid or unauthorized URL"
ErrPayloadTooLarge == "Payload too large"
ErrTypeError == "TypeError"
ErrTransport == "Timeout"        \* the error the transport rejects with

Frames == {"embedded", "top", "throws"}
Configs == { [onReady |-> TRUE, onError |-> TRUE, readyThrows |-> FALSE],
             [onReady |-> FALSE, onError |-> FALSE, readyThrows |-> FALSE] }

(* configs whose onReady callback throws an error when it is called *)
ThrowingConfigs == { [onReady |-> TRUE, onError |-> TRUE, readyThrows |-> TRUE],
                     [onReady |-> TRUE, onError |-> FALSE, readyThrows |-> TRUE] }

(* The params objects the application passes to open() and openList(). *)
OpenParams == [entityType |-> "Candidate", entityId |-> 123, view |-> "edit"]
OpenListParams == [entityType |-> "JobOrder", query |-> "status:Open", view |-> "grid"]
NoParams == << >>
Params == {OpenParams, OpenListParams}

(* What the transport answers: a response {data: ...}, or an error. *)
ReplyData == "reply.data"
Responses == { [data |-> ReplyData], [data |-> "other reply.data"] }
TransportErrors == { ErrTransport, "Network error" }
NoAnswer == [kind |-> "none", data |-> "none"]
NoMessage == [name |-> "none", payload |-> << >>, timeout |-> 0, domain |-> "any"]

(* Credentials in the page URL.  window.location.search and .hash are   *)
(* maps from parameter name to value (URLSearchParams.get); a value is   *)
(* its characters followed by `pad` filler characters "x", and `from`    *)
(* remembers the part of the URL and the name it was read under.         *)

MAX_PARAM_LENGTH == 500

CredentialFields == {"corporationId", "privateLabelId", "userId", "restUrl", "restToken"}

ParamNames ==
    { "corporationId", "corp", "privateLabelId", "plid", "userId", "uid", "restUrl",
      "BhRestToken", "restToken",
      "corporationid", "privatelabelid", "userid", "resturl", "resttoken" }

NoFrom == [part |-> "none", name |-> "none"]
NullParam == [kind |-> "null", chars |-> << >>, pad |-> 0, from |-> NoFrom]
Undefined == [kind |-> "undefined", chars |-> << >>, pad |-> 0, from |-> NoFrom]
ParamValue(chars, pad, part, name) ==
    [kind |-> "string", chars |-> chars, pad |-> pad,
     from |-> [part |-> part, name |-> name]]

ValueLength(v) == Len(v.chars) + v.pad

(* !value *)
Falsy(v) == v.kind # "string" \/ ValueLength(v) = 0

(* a || b *)
OrElse(a, b) == IF Falsy(a) THEN b ELSE a

(* validateParam(value) *)
validateParam(value) ==
    IF Falsy(value) THEN Undefined
    ELSE IF ValueLength(value) > MAX_PARAM_LENGTH THEN Undefined
    ELSE [value EXCEPT !.chars =
            SelectSeq(@, LAMBDA ch : ch \notin {"<", ">", "\"", "'", "&"})]

(* validateUrl(url): new URL(url) must parse and have the protocol        *)
(* 'https:'; of the values used here those that begin with a scheme parse *)
validateUrl(url) ==
    IF Falsy(url) THEN Undefined
    ELSE IF StartsWith(url.chars, <<"h","t","t","p","s",":">>) THEN url
    ELSE Undefined

TokenChars == {"q", "f", "x", "1", "2", "9", "-", "_", ".", "~"}    \* of [A-Za-z0-9\-_.~]

(* validateToken(token) *)
validateToken(token) ==
    IF Falsy(token) THEN Undefined
    ELSE IF (\E i \in DOMAIN token.chars : token.chars[i] \notin TokenChars)
            \/ ValueLength(token) > MAX_PARAM_LENGTH
    THEN Undefined
    ELSE token

validate(key, value) ==
    IF key = "restUrl" THEN validateUrl(value)
    ELSE IF key = "restToken" THEN validateToken(value)
    ELSE validateParam(value)

(* key.toLowerCase() *)
ToLowerCase(key) ==
    CASE key = "corporationId" -> "corporationid"
      [] key = "privateLabelId" -> "privatelabelid"
      [] key = "userId" -> "userid"
      [] key = "restUrl" -> "resturl"
      [] key = "restToken" -> "resttoken"

(* the names a field is read under in the query string, in order *)
queryNames(key) ==
    CASE key = "corporationId" -> <<"corporationId", "corp">>
      [] key = "privateLabelId" -> <<"privateLabelId", "plid">>
      [] key = "userId" -> <<"userId", "uid">>
      [] key = "restUrl" -> <<"restUrl">>
      [] key = "restToken" -> <<"BhRestToken", "restToken">>

(* the names a field is read under in the fragment, in order *)
hashNames(key) == <<key, ToLowerCase(key)>>

(* params.get(n1) || params.get(n2) || ... *)
RECURSIVE GetFirst(_, _)
GetFirst(params, names) ==
    IF names = << >> THEN NullParam
    ELSE IF Len(names) = 1 THEN params[names[1]]
    ELSE OrElse(params[Head(names)], GetFirst(params, Tail(names)))

NoCredentials == [key \in CredentialFields |-> Undefined]

(* extractCredentialsFromUrl() *)
extractCredentialsFromUrl(loc) ==
    LET fromQuery == [key \in CredentialFields |->
                        validate(key, GetFirst(loc.search, queryNames(key)))]
    IN  [key \in CredentialFields |->
            IF Falsy(fromQuery[key])
            THEN validate(key, GetFirst(loc.hash, hashNames(key)))
            ELSE fromQuery[key]]

EmptyParams == [n \in ParamNames |-> NullParam]
EmptyLocation == [search |-> EmptyParams, hash |-> EmptyParams]

(* The page URLs: one credential field at a time, given in the query      *)
(* string under any of its names (with a value its validator accepts or   *)
(* one it refuses) and in the fragment under one name.                    *)
GoodChars(key, part) ==
    IF key = "restUrl"
    THEN <<"h","t","t","p","s",":","/","/">> \o (IF part = "query" THEN <<"q">> ELSE <<"f">>)
    ELSE IF part = "query" THEN <<"q", "1">> ELSE <<"f", "2">>

RefusedChars(key) ==
    IF key = "restUrl" THEN <<"h","t","t","p",":","/","/","q">>
    ELSE IF key = "restToken" THEN <<"q", "<", "1">>
    ELSE <<"'", "'">>

SearchOf(key, names, good) ==
    [n \in ParamNames |->
        IF n \in names
        THEN ParamValue(IF good THEN GoodChars(key, "query") ELSE RefusedChars(key),
                        0, "query", n)
        ELSE NullParam]

HashOf(key, names) ==
    [n \in ParamNames |->
        IF n \in names THEN ParamValue(GoodChars(key, "fragment"), 0, "fragment", n)
        ELSE NullParam]

Range(seq) == {seq[i] : i \in DOMAIN seq}

Locations ==
    UNION { { [search |-> SearchOf(key, qs, good), hash |-> HashOf(key, hs)] :
                qs \in SUBSET Range(queryNames(key)),
                good \in BOOLEAN,
                hs \in {{}} \cup {{n} : n \in Range(queryNames(key))
                                            \cup {key, ToLowerCase(key)}} } :
            key \in CredentialFields }

(* The gateway requests: every method with the arguments it takes; every  *)
(* URL with a small and with an oversized body, every body with the valid *)
(* URL.                                                                   *)
SmallAndOversized ==
    { [kind |-> "string", plain |-> 3, quotes |-> 0],
      [kind |-> "object", plain |-> MaxPayloadLength + 1, quotes |-> 0] }

Requests ==
    [op : HttpOps \ BodyOps, url : Urls, body : {NoBody}, params : {NoParams}]
    \cup [op : BodyOps, url : Urls, body : SmallAndOversized, params : {NoParams}]
    \cup [op : BodyOps, url : {ValidUrl}, body : Bodies, params : {NoParams}]
    \cup [op : {"open", "openList"}, url : {NoUrl}, body : {NoBody}, params : Params]
    \cup [op : {"refresh"}, url : {NoUrl}, body : {NoBody}, params : {NoParams}]

(* The config argument of register(): title, url and color, each a      *)
(* string or missing.                                                   *)
Missing == "undefined"
DefaultTitle == "Custom Integration"
DefaultColor == "#0070c0"
Href == "https://integration.example/app"     \* window.location.href

(* register() without an argument: `config?.title` is undefined *)
NoInput == [title |-> Missing, url |-> Missing, color |-> Missing]

(* the left operand of `||` is falsy: undefined or the empty string *)
FalsyString(v) == v \in {Missing, ""}

(* performRegistration(): the payload of the 'register' message. *)
registrationConfig(cfg) ==
    [title |-> IF FalsyString(cfg.title) THEN DefaultTitle ELSE cfg.title,
     url   |-> IF FalsyString(cfg.url) THEN Href ELSE cfg.url,
     color |-> IF FalsyString(cfg.color) THEN DefaultColor ELSE cfg.color]

(* a retry that calls performRegistration() without the argument *)
retryConfig_Dropped(cfg) == NoInput

(* performRegistration(), catch block: the argument of the retry,       *)
(* `this.performRegistration(config)`.                                  *)
retryConfig(cfg) == cfg

(* The arguments the applications pass: none, a title with an empty     *)
(* color, and all three fields.                                         *)
RegisterInputs ==
    { NoInput,
      [title |-> "Notes", url |-> Missing, color |-> ""],
      [title |-> "Tasks", url |-> "https://tasks.example/", color |-> "#ff0000"] }

VARIABLES
    frame,                 \* window.parent: "embedded", "top" (parent is the window), or reading it "throws"
    config,                \* constructor config: which callbacks are set
    request,               \* the gateway request the application makes: [op, url, body]
    postRobot,             \* this.postRobot: "pending" (null, import running), "loaded", "failed"
    isRegistered,          \* this.isRegistered
    registrationPromise,   \* this.registrationPromise: [state, err], state "null" | "pending" | "resolved" | "rejected"
    registrationAttempts,  \* this.registrationAttempts
    regPc,                 \* position of performRegistration: "none" | "init" | "sent" | "backoff" | "settled"
    regOwner,              \* the caller whose register() started performRegistration (0: none)
    regStarts,             \* number of times register() started performRegistration
    sent,                  \* number of transport messages sent, per message name
    replies,               \* outcomes of the 'register' messages so far (TRUE: reply, FALSE: failure)
    timers,                \* the delays (ms) of the backoff timers set so far, in order
    effects,               \* subscriptions, callback invocations and emitted events, in order
    call,                  \* per caller: the API call it is making (id: its number among the calls)
    ncalls,                \* number of API calls made so far
    allowedOrigins,        \* this.allowedOrigins
    eventListeners,        \* this.eventListeners: event name -> listeners, in insertion order
    subscriptions,         \* the postRobot.on subscriptions made, in order
    inboundMsg,            \* the message the parent frame's side sends in: [origin, data]
    handled,               \* the inbound messages so far, with their outcome
    delivered,             \* the listener invocations of the latest emission, in order
    lastOff,               \* the latest off() call that removed a registration: [event, callback]
    defaultInstance,       \* module variable defaultInstance: 0 (null) or an instance
    instances,             \* the instances constructed so far: the config of each
    returned,              \* what getBullhornBridge() and `new` returned, in order
    location,              \* window.location: [search, hash], each a map from parameter name to value
    credentials,           \* this.credentials
    constructed,           \* the constructor has returned
    inputs,                \* per caller: the config argument it passes to register()
    regInput,              \* the config argument of the running performRegistration
    registerMsgs,          \* the payloads of the 'register' messages sent, in order
    onInvoke               \* per listener: the off() call it makes when it is invoked (NoOff: none)

relayVars == <<allowedOrigins, eventListeners, subscriptions, inboundMsg, handled,
               delivered, lastOff>>

moduleVars == <<defaultInstance, instances, returned>>

pageVars == <<location, credentials, constructed>>

inputVars == <<inputs, regInput, registerMsgs, onInvoke>>

vars == <<frame, config, request, postRobot, isRegistered, registrationPromise,
          registrationAttempts, regPc, regOwner, regStarts, sent, replies,
          timers, effects, call, ncalls, relayVars, moduleVars, pageVars, inputVars>>

IdleCall == [id |-> 0, op |-> "none", url |-> NoUrl, body |-> NoBody,
             params |-> NoParams, pc |-> "idle", path |-> "none",
             result |-> "none", sentReg |-> 0, sentVerb |-> 0,
             msg |-> NoMessage, answer |-> NoAnswer]

NullPromise == [state |-> "null", err |-> "none"]

(* The session after its constructor, whatever the inputs. *)
InitSession ==
    /\ postRobot = "pending"
    /\ isRegistered = FALSE
    /\ registrationPromise = NullPromise
    /\ registrationAttempts = 0
    /\ regPc = "none"
    /\ regOwner = 0
    /\ regStarts = 0
    /\ sent = [n \in MessageNames |-> 0]
    /\ replies = <<>>
    /\ timers = << >>
    /\ regInput = NoInput
    /\ registerMsgs = << >>
    /\ effects = <<>>
    /\ call = [c \in Callers |-> IdleCall]
    /\ ncalls = 0
    /\ subscriptions = << >>
    /\ handled = << >>
    /\ delivered = << >>
    /\ lastOff = NoOff

(* An application that calls register() without a config. *)
InitInputs ==
    /\ inputs = [c \in Callers |-> NoInput]
    /\ onInvoke = [cb \in Callbacks |-> NoOff]

(* A page without credential parameters: nothing is extracted. *)
InitPage ==
    /\ location = EmptyLocation
    /\ credentials = NoCredentials
    /\ constructed = TRUE

(* The module after its load: no default instance. *)
InitModule ==
    /\ defaultInstance = 0
    /\ instances = << >>
    /\ returned = << >>

Init ==
    /\ frame \in Frames
    /\ config \in Configs
    /\ request \in Requests
    /\ allowedOrigins = DefaultAllowedOrigins
    /\ inboundMsg = [origin |-> AppBullhorn, data |-> ScriptString]
    /\ eventListeners = NoListeners
    /\ InitSession
    /\ InitModule
    /\ InitPage
    /\ InitInputs

----------------------------------------------------------------------------
(* Decisions of the code, as operators *)

(* isInIframe whose catch block fails open *)
isInIframe_FailOpen(f) == f # "top"

isInIframe(f) == f = "embedded"

(* register() without the join of an in-flight registration *)
registerPath_NoJoin(f, registered, promise) ==
    IF ~isInIframe(f) THEN "notInIframe"
    ELSE IF registered THEN "already"
    ELSE "start"

(* register() without the early return of a registered session, joining   *)
(* only a registration that is still in flight                             *)
registerPath_NoAlready(f, registered, promise) ==
    IF ~isInIframe(f) THEN "notInIframe"
    ELSE IF promise.state = "pending" THEN "join"
    ELSE "start"

(* register() that starts a fresh registration once the earlier one has   *)
(* been rejected                                                          *)
registerPath_FreshAfterFailure(f, registered, promise) ==
    IF ~isInIframe(f) THEN "notInIframe"
    ELSE IF registered THEN "already"
    ELSE IF promise.state \in {"pending", "resolved"} THEN "join"
    ELSE "start"

(* register(): which of its four branches a call takes. *)
registerPath(f, registered, promise) ==
    IF ~isInIframe(f) THEN "notInIframe"
    ELSE IF registered THEN "already"
    ELSE IF promise.state # "null" THEN "join"
    ELSE "start"

(* register() that turns a rejected registration into a return value *)
registerOutcome_Absorbed(promise, registered) ==
    IF registered THEN "true" ELSE "false"

(* register(), resumed from `await this.registrationPromise`: the error   *)
(* of a rejected promise, else `return this.isRegistered`.                *)
registerOutcome(promise, registered) ==
    IF promise.state = "rejected" THEN promise.err
    ELSE IF registered THEN "true" ELSE "false"

(* ensureRegistered() without its own frame check *)
ensureRegisteredGate_NoFrameCheck(f, registered) ==
    IF ~registered THEN "register" ELSE "pass"

(* ensureRegistered() that does not wait for registration *)
ensureRegisteredGate_NoRegister(f, registered) ==
    IF ~isInIframe(f) THEN "notInIframe" ELSE "pass"

(* ensureRegistered(): fail, call register() first, or pass. *)
ensureRegisteredGate(f, registered) ==
    IF ~isInIframe(f) THEN "notInIframe"
    ELSE IF ~registered THEN "register"
    ELSE "pass"

(* the retry test with the comparison reversed *)
shouldRetry_Reversed(attempts) == attempts > maxRegistrationAttempts

(* the retry test with `<=` in place of `<` *)
shouldRetry_Leq(attempts) == attempts <= maxRegistrationAttempts

(* performRegistration(), catch block: retry or give up. *)
shouldRetry(attempts) == attempts < maxRegistrationAttempts

(* a backoff that grows with the attempt number *)
backoffDelay_Growing(attempts) == waitTime * attempts

(* performRegistration(), catch block: the delay of the timer awaited     *)
(* before the retry, set after the attempt counter was incremented.       *)
backoffDelay(attempts) == waitTime

(* An effect or a listener invocation, together with what isReady()       *)
(* returns and how many channels are subscribed at the time it happens    *)
(* (for an invocation also: the latest removal that preceded it).         *)
EffectAt(st, e) ==
    [kind |-> e.kind, name |-> e.name, data |-> e.data,
     ready |-> st.isRegistered, subs |-> Len(st.subscriptions)]

InvocationAt(st, inv) ==
    [callback |-> inv.callback, event |-> inv.event, data |-> inv.data,
     emission |-> Len(st.effects) + 1, after |-> lastOff,
     ready |-> st.isRegistered, subs |-> Len(st.subscriptions)]

(* this.emit(event, data) in session state st: the event and the          *)
(* invocations of its listeners                                           *)
emitAt(st, listeners, event, logged, data) ==
    [st EXCEPT
       !.effects = Append(@, EffectAt(st, [kind |-> "emit", name |-> event,
                                           data |-> logged])),
       !.delivered = [i \in DOMAIN emit(listeners, event, data) |->
                         InvocationAt(st, emit(listeners, event, data)[i])]]

(* setupEventListeners that subscribes to 'customEvent' only *)
setupEventListeners_CustomEventOnly(origins) ==
    << [name |-> "customEvent", window |-> "parent", domain |-> origins] >>

(* setupEventListeners(): the two postRobot.on subscriptions *)
setupEventListeners(origins) ==
    << [name |-> "customEvent", window |-> "parent", domain |-> origins],
       [name |-> "update", window |-> "parent", domain |-> origins] >>

(* the ready callback invoked before the session is marked registered *)
successSteps_CallbackFirst ==
    <<"onReadyCallback", "setRegistered", "setupEventListeners", "emitReady">>

(* performRegistration(), after a successful reply: the statements of the *)
(* try block that follow the await, in order.                             *)
successSteps ==
    <<"setRegistered", "setupEventListeners", "onReadyCallback", "emitReady">>

performStep(st, step, cfg, origins, listeners) ==
    CASE step = "setRegistered" ->
            [st EXCEPT !.isRegistered = TRUE]
      [] step = "setupEventListeners" ->
            [st EXCEPT
               !.subscriptions = @ \o setupEventListeners(origins),
               !.effects = @ \o
                  [i \in DOMAIN setupEventListeners(origins) |->
                      EffectAt(st, [kind |-> "subscribe",
                                    name |-> setupEventListeners(origins)[i].name,
                                    data |-> "none"])]]
      [] step = "onReadyCallback" ->
            IF cfg.onReady
            THEN [st EXCEPT !.effects =
                    Append(@, EffectAt(st, [kind |-> "callback", name |-> "onReady",
                                            data |-> "none"])),
                            !.thrown = cfg.readyThrows]
            ELSE st
      [] step = "emitReady" ->
            emitAt(st, listeners, "ready", "none", UndefinedValue)

RECURSIVE performSteps(_, _, _, _, _)
performSteps(st, steps, cfg, origins, listeners) ==
    IF steps = << >> \/ st.thrown THEN st      \* a throw leaves the try block
    ELSE performSteps(performStep(st, Head(steps), cfg, origins, listeners),
                      Tail(steps), cfg, origins, listeners)

(* the part of the session the statements after the await act on *)
SessionState ==
    [isRegistered |-> isRegistered, subscriptions |-> subscriptions,
     effects |-> effects, delivered |-> delivered, thrown |-> FALSE]

(* the terminal failure without the call of the error callback *)
failureEffects_NoCallback(cfg, err) ==
    << [kind |-> "emit", name |-> "error", data |-> err] >>

(* performRegistration(), retries exhausted: the error callback, emit('error'). *)
failureEffects(cfg, err) ==
    (IF cfg.onError
     THEN << [kind |-> "callback", name |-> "onError", data |-> err] >>
     ELSE << >>)
    \o << [kind |-> "emit", name |-> "error", data |-> err] >>

(* The checks a gateway method makes between ensureRegistered() and        *)
(* sendToParent: the error it throws, or "none" when it goes on to send.   *)
requestError(op, url, body, lib) ==
    IF op \in HttpOps /\ ~validateRelativeUrl(url) THEN ErrInvalidUrl
    ELSE IF op \in BodyOps /\ body.kind = "undefined" THEN ErrTypeError
    ELSE IF op \in BodyOps /\ payloadTooLarge(body) THEN ErrPayloadTooLarge
    ELSE IF lib # "loaded" THEN ErrNotInitialized
    ELSE "none"

(* a catch block that rethrows the transport error in every method *)
transportFailure_Leak(op, e) == e

(* The catch block around sendToParent in the gateway methods. *)
transportFailure(op, e) ==
    CASE op = "httpGET" -> "Failed to complete GET request"
      [] op = "httpPOST" -> "Failed to complete POST request"
      [] op = "httpPUT" -> "Failed to complete PUT request"
      [] op = "httpDELETE" -> "Failed to complete DELETE request"
      [] OTHER -> e

(* The arguments of sendToParent in the gateway methods. *)
payloadOf(op, url, body, params) ==
    CASE op \in {"httpGET", "httpDELETE"} -> [relativeURL |-> url]
      [] op \in BodyOps -> [relativeURL |-> url, data |-> body]
      [] op \in {"open", "openList"} -> params
      [] OTHER -> << >>                                  \* refresh: {}

(* every gateway message with the 10000 ms timeout *)
timeoutOf_AllTen(op) == 10000

timeoutOf(op) == IF op = "refresh" THEN 5000 ELSE 10000

domainOf(op) == IF op \in HttpOps THEN "allowedOrigins" ELSE "any"

messageOf(op, url, body, params) ==
    [name |-> op, payload |-> payloadOf(op, url, body, params),
     timeout |-> timeoutOf(op), domain |-> domainOf(op)]

----------------------------------------------------------------------------
(* State updates shared by the actions *)

Inc(name) == [sent EXCEPT ![name] = @ + 1]

(* performRegistration() from its first line to its first await, started   *)
(* by caller c whose call record becomes rec.                              *)
StartRegistration(c, rec) ==
    /\ registrationPromise' = [state |-> "pending", err |-> "none"]
    /\ regOwner' = c
    /\ regStarts' = regStarts + 1
    \* register(config) passes its argument, ensureRegistered() calls register()
    /\ regInput' = IF rec.op = "register" THEN inputs[c] ELSE NoInput
    /\ IF postRobot = "loaded"
       THEN /\ regPc' = "sent"
            /\ sent' = Inc("register")
            /\ registerMsgs' = Append(registerMsgs, registrationConfig(regInput'))
            /\ call' = [call EXCEPT ![c] = [rec EXCEPT !.sentReg = @ + 1]]
       ELSE /\ regPc' = "init"
            /\ sent' = sent
            /\ registerMsgs' = registerMsgs
            /\ call' = [call EXCEPT ![c] = rec]

(* A gateway method from the return of ensureRegistered() to its await of  *)
(* sendToParent (or to the error it throws).                               *)
AfterGate(c, rec) ==
    LET e == requestError(rec.op, rec.url, rec.body, postRobot) IN
    IF e # "none"
    THEN /\ call' = [call EXCEPT ![c] = [rec EXCEPT !.pc = "done", !.result = e]]
         /\ sent' = sent
    ELSE /\ call' = [call EXCEPT ![c] =
                        [rec EXCEPT !.pc = "awaitReply", !.sentVerb = @ + 1,
                            !.msg = messageOf(rec.op, rec.url, rec.body, rec.params)]]
         /\ sent' = Inc(rec.op)

NewCall(op, url, body, params) ==
    [IdleCall EXCEPT !.id = ncalls + 1, !.op = op, !.url = url, !.body = body,
                     !.params = params]

CanCall(c) ==
    /\ call[c].pc \in {"idle", "done"}
    /\ ncalls < MaxCalls
    /\ \A d \in Callers : d < c => call[d].pc # "idle"

----------------------------------------------------------------------------
(* Actions *)

(* The dynamic import of post-robot started by the constructor completes. *)
LibLoaded ==
    /\ postRobot = "pending"
    /\ postRobot' = "loaded"
    /\ UNCHANGED <<frame, config, request, isRegistered, registrationPromise,
                   registrationAttempts, regPc, regOwner, regStarts, sent,
                   replies, timers, effects, call, ncalls>>
    /\ UNCHANGED <<relayVars, moduleVars, pageVars, inputVars>>

LibFailed ==
    /\ postRobot = "pending"
    /\ postRobot' = "failed"
    /\ UNCHANGED <<frame, config, request, isRegistered, registrationPromise,
                   registrationAttempts, regPc, regOwner, regStarts, sent,
                   replies, timers, effects, call, ncalls>>
    /\ UNCHANGED <<relayVars, moduleVars, pageVars, inputVars>>

(* The application calls register(). *)
Register(c) ==
    /\ CanCall(c)
    /\ ncalls' = ncalls + 1
    /\ LET path == registerPath(frame, isRegistered, registrationPromise)
           rec == [NewCall("register", NoUrl, NoBody, NoParams) EXCEPT !.path = path]
       IN  CASE path = "notInIframe" ->
                  /\ call' = [call EXCEPT ![c] =
                                [rec EXCEPT !.pc = "done", !.result = "false"]]
                  /\ UNCHANGED <<registrationPromise, regPc, regOwner, regStarts, sent,
                               regInput, registerMsgs>>
             [] path = "already" ->
                  /\ call' = [call EXCEPT ![c] =
                                [rec EXCEPT !.pc = "done", !.result = "true"]]
                  /\ UNCHANGED <<registrationPromise, regPc, regOwner, regStarts, sent,
                               regInput, registerMsgs>>
             [] path = "join" ->
                  /\ call' = [call EXCEPT ![c] = [rec EXCEPT !.pc = "awaitReg"]]
                  /\ UNCHANGED <<registrationPromise, regPc, regOwner, regStarts, sent,
                               regInput, registerMsgs>>
             [] path = "start" ->
                  StartRegistration(c, [rec EXCEPT !.pc = "awaitReg"])
    /\ UNCHANGED <<frame, config, request, postRobot, isRegistered,
                   registrationAttempts, replies, timers, effects>>
    /\ UNCHANGED <<relayVars, moduleVars, pageVars, inputs, onInvoke>>

(* The application calls a gateway method. *)
Gateway(c) ==
    /\ CanCall(c)
    /\ ncalls' = ncalls + 1
    /\ LET gate == ensureRegisteredGate(frame, isRegistered)
           path == IF gate = "register"
                   THEN registerPath(frame, isRegistered, registrationPromise)
                   ELSE gate
           rec == [NewCall(request.op, request.url, request.body, request.params) EXCEPT !.path = path]
       IN  CASE path = "notInIframe" ->
                  \* thrown by ensureRegistered itself, or register() returned
                  \* false and isRegistered is still false
                  /\ call' = [call EXCEPT ![c] =
                                [rec EXCEPT !.pc = "done",
                                   !.result = IF gate = "notInIframe"
                                              THEN ErrNotInIframe
                                              ELSE ErrFailedToRegister]]
                  /\ UNCHANGED <<registrationPromise, regPc, regOwner, regStarts, sent,
                               regInput, registerMsgs>>
             [] path \in {"pass", "already"} ->
                  /\ AfterGate(c, rec)
                  /\ UNCHANGED <<registrationPromise, regPc, regOwner, regStarts,
                               regInput, registerMsgs>>
             [] path = "join" ->
                  /\ call' = [call EXCEPT ![c] = [rec EXCEPT !.pc = "awaitReg"]]
                  /\ UNCHANGED <<registrationPromise, regPc, regOwner, regStarts, sent,
                               regInput, registerMsgs>>
             [] path = "start" ->
                  StartRegistration(c, [rec EXCEPT !.pc = "awaitReg"])
    /\ UNCHANGED <<frame, config, request, postRobot, isRegistered,
                   registrationAttempts, replies, timers, effects>>
    /\ UNCHANGED <<relayVars, moduleVars, pageVars, inputs, onInvoke>>

(* performRegistration() resumes after awaiting initializePostRobot(). *)
RegAfterInit ==
    /\ regPc = "init"
    /\ postRobot # "pending"
    /\ IF postRobot = "loaded"
       THEN /\ regPc' = "sent"
            /\ sent' = Inc("register")
            /\ registerMsgs' = Append(registerMsgs, registrationConfig(regInput))
            /\ call' = [call EXCEPT ![regOwner].sentReg = @ + 1]
            /\ UNCHANGED registrationPromise
       ELSE /\ regPc' = "settled"
            /\ registrationPromise' = [state |-> "rejected", err |-> ErrInitLibrary]
            /\ UNCHANGED <<sent, registerMsgs, call>>
    /\ UNCHANGED <<frame, config, request, postRobot, isRegistered, registrationAttempts,
                   regOwner, regStarts, replies, timers, effects, ncalls>>
    /\ UNCHANGED <<relayVars, moduleVars, pageVars, inputs, regInput, onInvoke>>

(* a catch block whose terminal failure runs the error callbacks but    *)
(* never rejects the registration                                        *)
CatchBlock_NeverRejects(st) ==
    IF shouldRetry(registrationAttempts)
    THEN /\ registrationAttempts' = registrationAttempts + 1
         /\ timers' = Append(timers, backoffDelay(registrationAttempts'))
         /\ regPc' = "backoff"
         /\ effects' = st.effects
         /\ delivered' = st.delivered
         /\ UNCHANGED registrationPromise
    ELSE /\ effects' = st.effects \o
               [i \in DOMAIN failureEffects(config, ErrMaxAttempts) |->
                   EffectAt(st, failureEffects(config, ErrMaxAttempts)[i])]
         /\ delivered' =
               [i \in DOMAIN emit(eventListeners, "error", ErrorValue(ErrMaxAttempts)) |->
                   InvocationAt([st EXCEPT !.effects = SubSeq(effects', 1, Len(effects') - 1)],
                       emit(eventListeners, "error", ErrorValue(ErrMaxAttempts))[i])]
         /\ regPc' = "settled"
         /\ UNCHANGED <<registrationPromise, registrationAttempts, timers>>

(* performRegistration(), catch block, entered in session state st: a   *)
(* retry after the backoff, or the terminal failure.                     *)
CatchBlock(st) ==
    IF shouldRetry(registrationAttempts)
    THEN /\ registrationAttempts' = registrationAttempts + 1
         /\ timers' = Append(timers, backoffDelay(registrationAttempts'))
         /\ regPc' = "backoff"
         /\ effects' = st.effects
         /\ delivered' = st.delivered
         /\ UNCHANGED registrationPromise
    ELSE /\ effects' = st.effects \o
               [i \in DOMAIN failureEffects(config, ErrMaxAttempts) |->
                   EffectAt(st, failureEffects(config, ErrMaxAttempts)[i])]
         /\ delivered' =
               [i \in DOMAIN emit(eventListeners, "error", ErrorValue(ErrMaxAttempts)) |->
                   InvocationAt([st EXCEPT !.effects = SubSeq(effects', 1, Len(effects') - 1)],
                       emit(eventListeners, "error", ErrorValue(ErrMaxAttempts))[i])]
         /\ registrationPromise' = [state |-> "rejected", err |-> ErrMaxAttempts]
         /\ regPc' = "settled"
         /\ UNCHANGED <<registrationAttempts, timers>>

(* The parent answers the 'register' message: the rest of the try block  *)
(* runs, and the catch block when the ready callback throws.             *)
RegisterReplied ==
    /\ regPc = "sent"
    /\ replies' = Append(replies, TRUE)
    /\ LET st == performSteps(SessionState, successSteps, config,
                              allowedOrigins, eventListeners)
       IN  /\ isRegistered' = st.isRegistered
           /\ subscriptions' = st.subscriptions
           /\ IF st.thrown
              THEN CatchBlock(st)
              ELSE /\ effects' = st.effects
                   /\ delivered' = st.delivered
                   /\ registrationPromise' = [state |-> "resolved", err |-> "none"]
                   /\ regPc' = "settled"
                   /\ UNCHANGED <<registrationAttempts, timers>>
    /\ UNCHANGED <<frame, config, request, postRobot, regOwner,
                   regStarts, sent, call, ncalls>>
    /\ UNCHANGED <<allowedOrigins, eventListeners, inboundMsg, handled, lastOff,
                   moduleVars, pageVars, inputVars>>

(* The 'register' message fails or times out (5000 ms). *)
RegisterFailed ==
    /\ regPc = "sent"
    /\ replies' = Append(replies, FALSE)
    /\ CatchBlock(SessionState)
    /\ UNCHANGED <<frame, config, request, postRobot, isRegistered, regOwner,
                   regStarts, sent, call, ncalls>>
    /\ UNCHANGED <<allowedOrigins, eventListeners, subscriptions, inboundMsg, handled,
                   lastOff, moduleVars, pageVars, inputVars>>

(* The backoff timer (waitTime) fires: performRegistration() runs again. *)
BackoffElapsed ==
    /\ regPc = "backoff"
    /\ regPc' = "sent"
    /\ regInput' = retryConfig(regInput)
    /\ sent' = Inc("register")
    /\ registerMsgs' = Append(registerMsgs, registrationConfig(regInput'))
    /\ call' = [call EXCEPT ![regOwner].sentReg = @ + 1]
    /\ UNCHANGED <<frame, config, request, postRobot, isRegistered, registrationPromise,
                   registrationAttempts, regOwner, regStarts, replies, timers, effects,
                   ncalls>>
    /\ UNCHANGED <<relayVars, moduleVars, pageVars, inputs, onInvoke>>

(* an ensureRegistered() that swallows the rejection of register() and   *)
(* throws its own error                                                  *)
Resume_OwnError(c) ==
    /\ call[c].pc = "awaitReg"
    /\ registrationPromise.state \in {"resolved", "rejected"}
    /\ IF call[c].op = "register"
       THEN /\ call' = [call EXCEPT ![c].pc = "done",
                           ![c].result = registerOutcome(registrationPromise,
                                                         isRegistered)]
            /\ sent' = sent
       ELSE IF ~isRegistered
       THEN /\ call' = [call EXCEPT ![c].pc = "done",
                                    ![c].result = ErrFailedToRegister]
            /\ sent' = sent
       ELSE AfterGate(c, call[c])
    /\ UNCHANGED <<frame, config, request, postRobot, isRegistered, registrationPromise,
                   registrationAttempts, regPc, regOwner, regStarts, replies, timers,
                   effects, ncalls>>
    /\ UNCHANGED <<relayVars, moduleVars, pageVars, inputVars>>

(* A caller awaiting registrationPromise resumes once it has settled. *)
Resume(c) ==
    /\ call[c].pc = "awaitReg"
    /\ registrationPromise.state \in {"resolved", "rejected"}
    /\ IF call[c].op = "register"
       THEN /\ call' = [call EXCEPT ![c].pc = "done",
                           ![c].result = registerOutcome(registrationPromise,
                                                         isRegistered)]
            /\ sent' = sent
       ELSE IF registrationPromise.state = "rejected"
       THEN /\ call' = [call EXCEPT ![c].pc = "done",
                                    ![c].result = registrationPromise.err]
            /\ sent' = sent
       ELSE IF ~isRegistered
       THEN /\ call' = [call EXCEPT ![c].pc = "done",
                                    ![c].result = ErrFailedToRegister]
            /\ sent' = sent
       ELSE AfterGate(c, call[c])
    /\ UNCHANGED <<frame, config, request, postRobot, isRegistered, registrationPromise,
                   registrationAttempts, regPc, regOwner, regStarts, replies, timers,
                   effects, ncalls>>
    /\ UNCHANGED <<relayVars, moduleVars, pageVars, inputVars>>

(* The parent answers a gateway message: the method returns response.data. *)
VerbReplied(c) ==
    /\ call[c].pc = "awaitReply"
    /\ \E response \in Responses :
          call' = [call EXCEPT ![c].pc = "done",
                               ![c].result = response.data,
                               ![c].answer = [kind |-> "reply", data |-> response.data]]
    /\ UNCHANGED <<frame, config, request, postRobot, isRegistered, registrationPromise,
                   registrationAttempts, regPc, regOwner, regStarts, sent,
                   replies, timers, effects, ncalls>>
    /\ UNCHANGED <<relayVars, moduleVars, pageVars, inputVars>>

(* a catch block that sends the message once more before giving up *)
VerbFailed_Retry(c) ==
    /\ call[c].pc = "awaitReply"
    /\ IF call[c].sentVerb < 2
       THEN /\ call' = [call EXCEPT ![c].sentVerb = @ + 1]
            /\ sent' = Inc(call[c].op)
       ELSE /\ \E e \in TransportErrors :
                 call' = [call EXCEPT ![c].pc = "done",
                                      ![c].result = transportFailure(call[c].op, e),
                                      ![c].answer = [kind |-> "error", data |-> e]]
            /\ sent' = sent
    /\ UNCHANGED <<frame, config, request, postRobot, isRegistered, registrationPromise,
                   registrationAttempts, regPc, regOwner, regStarts,
                   replies, timers, effects, ncalls>>
    /\ UNCHANGED <<relayVars, moduleVars, pageVars, inputVars>>

(* a catch block that marks the session unregistered on a transport failure *)
VerbFailed_Unregister(c) ==
    /\ call[c].pc = "awaitReply"
    /\ \E e \in TransportErrors :
          call' = [call EXCEPT ![c].pc = "done",
                               ![c].result = transportFailure(call[c].op, e),
                               ![c].answer = [kind |-> "error", data |-> e]]
    /\ isRegistered' = FALSE
    /\ UNCHANGED <<frame, config, request, postRobot, registrationPromise,
                   registrationAttempts, regPc, regOwner, regStarts, sent,
                   replies, timers, effects, ncalls>>
    /\ UNCHANGED <<relayVars, moduleVars, pageVars, inputVars>>

(* A gateway message fails or times out. *)
VerbFailed(c) ==
    /\ call[c].pc = "awaitReply"
    /\ \E e \in TransportErrors :
          call' = [call EXCEPT ![c].pc = "done",
                               ![c].result = transportFailure(call[c].op, e),
                               ![c].answer = [kind |-> "error", data |-> e]]
    /\ UNCHANGED <<frame, config, request, postRobot, isRegistered, registrationPromise,
                   registrationAttempts, regPc, regOwner, regStarts, sent,
                   replies, timers, effects, ncalls>>
    /\ UNCHANGED <<relayVars, moduleVars, pageVars, inputVars>>

Next ==
    \/ LibLoaded
    \/ LibFailed
    \/ \E c \in Callers : Register(c)
    \/ \E c \in Callers : Gateway(c)
    \/ RegAfterInit
    \/ RegisterReplied
    \/ RegisterFailed
    \/ BackoffElapsed
    \/ \E c \in Callers : Resume(c)
    \/ \E c \in Callers : VerbReplied(c)
    \/ \E c \in Callers : VerbFailed(c)

Spec == Init /\ [][Next]_vars

----------------------------------------------------------------------------
(* The Event Relay: the application registers and removes listeners, the   *)
(* parent frame's side sends messages on the subscribed channels.  The     *)
(* transport's own filtering by the `domain` option is not relied on: a    *)
(* message of any origin may reach the handler.                            *)

RelayCallers == {1}

TotalListeners == Len(eventListeners["ready"]) + Len(eventListeners["error"])
                  + Len(eventListeners["customEvent"]) + Len(eventListeners["update"])

sessionVars == <<frame, config, request, postRobot, isRegistered, registrationPromise,
                 registrationAttempts, regPc, regOwner, regStarts, sent, replies,
                 timers, call, ncalls>>

(* the postRobot.on subscriptions to a channel *)
SubscribedTo(channel) == {i \in DOMAIN subscriptions : subscriptions[i].name = channel}

(* The application calls on(event, callback). *)
On(event, callback) ==
    /\ TotalListeners < MaxListeners
    /\ eventListeners' = on(eventListeners, event, callback)
    /\ UNCHANGED <<sessionVars, effects, allowedOrigins, subscriptions, inboundMsg,
                   handled, delivered, lastOff, moduleVars, pageVars, inputVars>>

(* The application calls off(event, callback). *)
Off(event, callback) ==
    /\ eventListeners' = off(eventListeners, event, callback)
    /\ lastOff' = IF eventListeners' # eventListeners
                  THEN [event |-> event, callback |-> callback]
                  ELSE lastOff
    /\ UNCHANGED <<sessionVars, effects, allowedOrigins, subscriptions, inboundMsg,
                   handled, delivered, moduleVars, pageVars, inputVars>>

(* a handler that reports the rejected message with emit('error') *)
Inbound_ErrorOnReject(i) ==
    /\ Len(handled) < MaxInbound
    /\ LET channel == subscriptions[i].name
           st == IF ~isAllowedOrigin(inboundMsg.origin, allowedOrigins)
                 THEN emitAt(SessionState, eventListeners, "error", "Unauthorized origin",
                             ErrorValue("Unauthorized origin"))
                 ELSE emitAt(SessionState, eventListeners, channel, "sanitized",
                             sanitizeEventData(inboundMsg.data))
       IN  /\ handled' = Append(handled,
                  [channel |-> channel,
                   allowed |-> isAllowedOrigin(inboundMsg.origin, allowedOrigins),
                   outcome |-> IF isAllowedOrigin(inboundMsg.origin, allowedOrigins)
                               THEN "received" ELSE "Unauthorized origin",
                   emission |-> Len(st.effects)])
           /\ effects' = st.effects
           /\ delivered' = st.delivered
    /\ UNCHANGED <<sessionVars, allowedOrigins, eventListeners, subscriptions,
                   inboundMsg, lastOff, moduleVars, pageVars, inputVars>>

(* The handler of subscription i runs for an inbound message. *)
Inbound(i) ==
    /\ Len(handled) < MaxInbound
    /\ LET channel == subscriptions[i].name IN
       IF ~isAllowedOrigin(inboundMsg.origin, allowedOrigins)
       THEN /\ handled' = Append(handled, [channel |-> channel, allowed |-> FALSE,
                                           outcome |-> "Unauthorized origin",
                                           emission |-> 0])
            /\ UNCHANGED <<effects, delivered>>
       ELSE LET st == emitAt(SessionState, eventListeners, channel, "sanitized",
                             sanitizeEventData(inboundMsg.data))
            IN  /\ handled' = Append(handled, [channel |-> channel, allowed |-> TRUE,
                                               outcome |-> "received",
                                               emission |-> Len(st.effects)])
                /\ effects' = st.effects
                /\ delivered' = st.delivered
    /\ UNCHANGED <<sessionVars, allowedOrigins, eventListeners, subscriptions,
                   inboundMsg, lastOff, moduleVars, pageVars, inputVars>>

(* a session whose handlers are in place before the handshake: the     *)
(* message is sanitized and emitted to the local listeners              *)
InboundUnsubscribed_Delivers(channel) ==
    /\ Len(handled) < MaxInbound
    /\ SubscribedTo(channel) = {}
    /\ LET st == emitAt(SessionState, eventListeners, channel, "sanitized",
                        sanitizeEventData(inboundMsg.data))
       IN  /\ handled' = Append(handled, [channel |-> channel, allowed |-> TRUE,
                                          outcome |-> "received",
                                          emission |-> Len(st.effects)])
           /\ effects' = st.effects
           /\ delivered' = st.delivered
    /\ UNCHANGED <<sessionVars, allowedOrigins, eventListeners, subscriptions,
                   inboundMsg, lastOff, moduleVars, pageVars, inputVars>>

(* An inbound message arrives on a channel the session has not           *)
(* subscribed to: no handler of the session runs.                        *)
InboundUnsubscribed(channel) ==
    /\ Len(handled) < MaxInbound
    /\ SubscribedTo(channel) = {}
    /\ handled' = Append(handled, [channel |-> channel, allowed |-> FALSE,
                                   outcome |-> "no handler", emission |-> 0])
    /\ UNCHANGED <<sessionVars, effects, allowedOrigins, eventListeners, subscriptions,
                   inboundMsg, delivered, lastOff, moduleVars, pageVars, inputVars>>

(* An inbound message from an allowed origin, handled by subscription i, *)
(* with listeners that call off() while they run: emit() runs each       *)
(* listener inside the forEach, so its off() call splices the array the  *)
(* loop is reading.                                                      *)
Dispatch(i) ==
    /\ Len(handled) < MaxInbound
    /\ isAllowedOrigin(inboundMsg.origin, allowedOrigins)
    /\ LET channel == subscriptions[i].name
           data == sanitizeEventData(inboundMsg.data)
           loop == forEach(eventListeners, channel, 1, Len(eventListeners[channel]),
                           onInvoke)
           st == emitAt(SessionState, eventListeners, channel, "sanitized", data)
       IN  /\ handled' = Append(handled, [channel |-> channel, allowed |-> TRUE,
                                          outcome |-> "received",
                                          emission |-> Len(st.effects)])
           /\ effects' = st.effects
           /\ delivered' = [k \in DOMAIN loop.invoked |->
                               InvocationAt(SessionState,
                                   [callback |-> loop.invoked[k], event |-> channel,
                                    data |-> data])]
           /\ eventListeners' = loop.listeners
    /\ UNCHANGED <<sessionVars, allowedOrigins, subscriptions, inboundMsg, lastOff,
                   moduleVars, pageVars, inputVars>>

(* The listeners an application registers on a new session. *)
ListenerSetups ==
    { NoListeners,
      on(NoListeners, "customEvent", "listener1"),
      on(on(on(NoListeners, "customEvent", "listener1"), "customEvent", "listener2"),
         "update", "listener2") }

(* The relay of inbound messages: the application has registered its      *)
(* listeners, one caller registers, the parent answers the handshake and  *)
(* sends messages in.                                                     *)
InitRelay ==
    /\ frame = "embedded"
    /\ config = [onReady |-> FALSE, onError |-> FALSE, readyThrows |-> FALSE]
    /\ request = [op |-> "refresh", url |-> NoUrl, body |-> NoBody, params |-> NoParams]
    /\ allowedOrigins \in AllowedOriginsLists
    /\ inboundMsg \in InboundMessages
    /\ eventListeners \in ListenerSetups
    /\ InitSession
    /\ InitModule
    /\ InitPage
    /\ InitInputs

NextRelay ==
    \/ LibLoaded
    \/ \E c \in RelayCallers : Register(c)
    \/ RegAfterInit
    \/ RegisterReplied
    \/ \E c \in RelayCallers : Resume(c)
    \/ \E i \in DOMAIN subscriptions : Inbound(i)

SpecRelay == InitRelay /\ [][NextRelay]_vars

(* The listener registry: the application adds and removes listeners       *)
(* while one caller registers, the parent answers the handshake and sends *)
(* messages in from an allowed origin on the channel that is listened to. *)
InitListeners ==
    /\ frame = "embedded"
    /\ config = [onReady |-> TRUE, onError |-> TRUE, readyThrows |-> FALSE]
    /\ request = [op |-> "refresh", url |-> NoUrl, body |-> NoBody, params |-> NoParams]
    /\ allowedOrigins = DefaultAllowedOrigins
    /\ inboundMsg = [origin |-> AppBullhorn, data |-> ScriptString]
    /\ eventListeners = NoListeners
    /\ InitSession
    /\ InitModule
    /\ InitPage
    /\ InitInputs

NextListeners ==
    \/ LibLoaded
    \/ \E c \in RelayCallers : Register(c)
    \/ RegAfterInit
    \/ RegisterReplied
    \/ \E c \in RelayCallers : Resume(c)
    \/ \E event \in ListenedEvents, callback \in Callbacks : On(event, callback)
    \/ \E event \in ListenedEvents, callback \in Callbacks : Off(event, callback)
    \/ \E i \in DOMAIN subscriptions :
          subscriptions[i].name \in ListenedEvents /\ Inbound(i)

SpecListeners == InitListeners /\ [][NextListeners]_vars

(* Removal of listeners: the application has registered its listeners,   *)
(* one of them twice around another; it removes listeners while one       *)
(* caller registers and the parent sends messages in.                     *)
RegistrySetups ==
    { on(on(on(NoListeners, "customEvent", "listener1"), "customEvent", "listener2"),
         "customEvent", "listener1"),
      on(on(on(on(NoListeners, "customEvent", "listener1"), "customEvent", "listener2"),
            "customEvent", "listener1"), "update", "listener1"),
      on(on(NoListeners, "customEvent", "listener2"), "update", "listener2") }

InitRegistry ==
    /\ frame = "embedded"
    /\ config = [onReady |-> FALSE, onError |-> FALSE, readyThrows |-> FALSE]
    /\ request = [op |-> "refresh", url |-> NoUrl, body |-> NoBody, params |-> NoParams]
    /\ allowedOrigins = DefaultAllowedOrigins
    /\ inboundMsg = [origin |-> AppBullhorn, data |-> ScriptString]
    /\ eventListeners \in RegistrySetups
    /\ InitSession
    /\ InitModule
    /\ InitPage
    /\ InitInputs

NextRegistry ==
    \/ LibLoaded
    \/ \E c \in RelayCallers : Register(c)
    \/ RegAfterInit
    \/ RegisterReplied
    \/ \E c \in RelayCallers : Resume(c)
    \/ \E event \in Events, callback \in Callbacks : Off(event, callback)
    \/ \E i \in DOMAIN subscriptions : Inbound(i)

SpecRegistry == InitRegistry /\ [][NextRegistry]_vars

----------------------------------------------------------------------------
(* The module's default instance.  An instance is identified by its       *)
(* position in `instances`, which keeps the config it was constructed     *)
(* with.                                                                  *)

InstanceConfigs == {"undefined", "{debug: true}"}

(* getBullhornBridge that constructs an instance on every call *)
needsInstance_Always(default) == TRUE

(* `if (!defaultInstance)` *)
needsInstance(default) == default = 0

(* getBullhornBridge(cfg) *)
GetBullhornBridge(cfg) ==
    /\ Len(returned) < MaxInstanceCalls
    /\ IF needsInstance(defaultInstance)
       THEN /\ instances' = Append(instances, cfg)
            /\ defaultInstance' = Len(instances) + 1
       ELSE UNCHANGED <<instances, defaultInstance>>
    /\ returned' = Append(returned, [by |-> "getBullhornBridge", config |-> cfg,
                                     instance |-> defaultInstance'])
    /\ UNCHANGED <<sessionVars, effects, relayVars, pageVars, inputVars>>

(* new BullhornBridge(cfg) *)
Construct(cfg) ==
    /\ Len(returned) < MaxInstanceCalls
    /\ instances' = Append(instances, cfg)
    /\ returned' = Append(returned, [by |-> "new", config |-> cfg,
                                     instance |-> Len(instances) + 1])
    /\ UNCHANGED <<defaultInstance, sessionVars, effects, relayVars, pageVars, inputVars>>

InitSingleton ==
    /\ frame = "embedded"
    /\ config = [onReady |-> FALSE, onError |-> FALSE, readyThrows |-> FALSE]
    /\ request = [op |-> "refresh", url |-> NoUrl, body |-> NoBody, params |-> NoParams]
    /\ allowedOrigins = DefaultAllowedOrigins
    /\ inboundMsg = [origin |-> AppBullhorn, data |-> ScriptString]
    /\ eventListeners = NoListeners
    /\ InitSession
    /\ InitModule
    /\ InitPage
    /\ InitInputs

NextSingleton ==
    \/ \E cfg \in InstanceConfigs : GetBullhornBridge(cfg)
    \/ \E cfg \in InstanceConfigs : Construct(cfg)

SpecSingleton == InitSingleton /\ [][NextSingleton]_vars

----------------------------------------------------------------------------
(* URL validation: one caller makes GET requests with a URL of UrlInputs  *)
(* on a session whose handshake succeeds.                                 *)

UrlRequests == [op : {"httpGET"}, url : UrlInputs, body : {NoBody}, params : {NoParams}]

InitUrl ==
    /\ frame = "embedded"
    /\ config = [onReady |-> FALSE, onError |-> FALSE, readyThrows |-> FALSE]
    /\ request \in UrlRequests
    /\ allowedOrigins = DefaultAllowedOrigins
    /\ inboundMsg = [origin |-> AppBullhorn, data |-> ScriptString]
    /\ eventListeners = NoListeners
    /\ InitSession
    /\ InitModule
    /\ InitPage
    /\ InitInputs

NextUrl ==
    \/ LibLoaded
    \/ \E c \in RelayCallers : Gateway(c)
    \/ RegAfterInit
    \/ RegisterReplied
    \/ \E c \in RelayCallers : Resume(c)
    \/ \E c \in RelayCallers : VerbReplied(c)
    \/ \E c \in RelayCallers : VerbFailed(c)

SpecUrl == InitUrl /\ [][NextUrl]_vars

----------------------------------------------------------------------------
(* The whole life of a session: one caller makes register() and refresh() *)
(* calls, the parent answers or fails every message, the application adds *)
(* and removes a 'customEvent' listener, the parent sends 'customEvent'   *)
(* messages in.                                                           *)

isReady == isRegistered

InitLifecycle ==
    /\ frame = "embedded"
    /\ config = [onReady |-> FALSE, onError |-> FALSE, readyThrows |-> FALSE]
    /\ request = [op |-> "refresh", url |-> NoUrl, body |-> NoBody, params |-> NoParams]
    /\ allowedOrigins = DefaultAllowedOrigins
    /\ inboundMsg = [origin |-> AppBullhorn, data |-> ScriptString]
    /\ eventListeners = NoListeners
    /\ InitSession
    /\ InitModule
    /\ InitPage
    /\ InitInputs

NextLifecycle ==
    \/ LibLoaded
    \/ \E c \in RelayCallers : Register(c)
    \/ \E c \in RelayCallers : Gateway(c)
    \/ RegAfterInit
    \/ RegisterReplied
    \/ RegisterFailed
    \/ BackoffElapsed
    \/ \E c \in RelayCallers : Resume(c)
    \/ \E c \in RelayCallers : VerbReplied(c)
    \/ \E c \in RelayCallers : VerbFailed(c)
    \/ On("customEvent", "listener1")
    \/ Off("customEvent", "listener1")
    \/ \E i \in DOMAIN subscriptions :
          subscriptions[i].name = "customEvent" /\ Inbound(i)
    \/ InboundUnsubscribed("customEvent")

SpecLifecycle == InitLifecycle /\ [][NextLifecycle]_vars

----------------------------------------------------------------------------
(* A ready callback that throws: one caller registers on a session whose *)
(* onReady callback throws an error every time it is called.             *)

InitThrowing ==
    /\ frame = "embedded"
    /\ config \in ThrowingConfigs
    /\ request = [op |-> "refresh", url |-> NoUrl, body |-> NoBody, params |-> NoParams]
    /\ allowedOrigins = DefaultAllowedOrigins
    /\ inboundMsg = [origin |-> AppBullhorn, data |-> ScriptString]
    /\ eventListeners = NoListeners
    /\ InitSession
    /\ InitModule
    /\ InitPage
    /\ InitInputs

NextThrowing ==
    \/ LibLoaded
    \/ \E c \in RelayCallers : Register(c)
    \/ RegAfterInit
    \/ RegisterReplied
    \/ RegisterFailed
    \/ BackoffElapsed
    \/ \E c \in RelayCallers : Resume(c)

SpecThrowing == InitThrowing /\ [][NextThrowing]_vars

----------------------------------------------------------------------------
(* Credential extraction: the constructor of a session on a page whose   *)
(* URL carries credential parameters.                                    *)

(* The constructor, from the field initializers to its return:          *)
(* `if (this.isInIframe()) this.extractCredentialsFromUrl()`              *)
Constructor ==
    /\ ~constructed
    /\ constructed' = TRUE
    /\ credentials' = IF isInIframe(frame)
                      THEN extractCredentialsFromUrl(location)
                      ELSE credentials
    /\ UNCHANGED <<sessionVars, effects, relayVars, moduleVars, location, inputVars>>

InitCredentials ==
    /\ frame \in Frames
    /\ config = [onReady |-> FALSE, onError |-> FALSE, readyThrows |-> FALSE]
    /\ request = [op |-> "refresh", url |-> NoUrl, body |-> NoBody, params |-> NoParams]
    /\ allowedOrigins = DefaultAllowedOrigins
    /\ inboundMsg = [origin |-> AppBullhorn, data |-> ScriptString]
    /\ eventListeners = NoListeners
    /\ location \in Locations
    /\ credentials = NoCredentials
    /\ constructed = FALSE
    /\ InitInputs
    /\ InitSession
    /\ InitModule

NextCredentials == Constructor

SpecCredentials == InitCredentials /\ [][NextCredentials]_vars

----------------------------------------------------------------------------
TypeOK ==
    /\ frame \in Frames
    /\ config \in Configs \cup ThrowingConfigs
    /\ request \in Requests \cup UrlRequests
    /\ timers \in Seq(Nat)
    /\ inputs \in [Callers -> RegisterInputs]
    /\ onInvoke \in [Callbacks -> OffCalls \cup {NoOff}]
    /\ regInput \in RegisterInputs
    /\ Len(registerMsgs) = sent["register"]
    /\ location \in Locations \cup {EmptyLocation}
    /\ constructed \in BOOLEAN
    /\ DOMAIN credentials = CredentialFields
    /\ postRobot \in {"pending", "loaded", "failed"}
    /\ isRegistered \in BOOLEAN
    /\ registrationPromise.state \in {"null", "pending", "resolved", "rejected"}
    /\ registrationAttempts \in 0..maxRegistrationAttempts
    /\ regPc \in {"none", "init", "sent", "backoff", "settled"}
    /\ regOwner \in 0..NCallers
    /\ ncalls \in 0..MaxCalls
    /\ \A c \in Callers : call[c].pc \in {"idle", "awaitReg", "awaitReply", "done"}
    /\ allowedOrigins \in AllowedOriginsLists
    /\ DOMAIN eventListeners = Events
    /\ \A e \in Events : \A i \in DOMAIN eventListeners[e] :
          eventListeners[e][i] \in Callbacks
    /\ \A i \in DOMAIN subscriptions : subscriptions[i].name \in InboundChannels
    /\ Len(handled) <= MaxInbound
    /\ \A i \in DOMAIN delivered : delivered[i].callback \in Callbacks
    /\ defaultInstance \in 0..Len(instances)
    /\ Len(returned) <= MaxInstanceCalls

----------------------------------------------------------------------------
(* Properties *)

OneMiB == 1048576

Count(kind, name) ==
    Cardinality({i \in 1..Len(effects) :
                    effects[i].kind = kind /\ effects[i].name = name})

AllFailed(k) == [i \in 1..k |-> FALSE]

(* caller c makes call number ncalls' of method op in this step *)
Calls(c, ops) ==
    /\ ncalls' = ncalls + 1
    /\ call'[c].id = ncalls'
    /\ call'[c].op \in ops

RegisterSettled(c) ==
    /\ call[c].op = "register"
    /\ call[c].pc = "done"

RegisterWhenRegistered ==
    [][\A c \in Callers :
          (isRegistered /\ Calls(c, {"register"}))
             => /\ call'[c].pc = "done"
                /\ call'[c].result = "true"
                /\ sent' = sent
                /\ UNCHANGED <<registrationPromise, regPc, regStarts>>]_vars

\* C2 witness: the session is registered by one 'register' message and two
\* later register() calls have returned true.
RegisterWhenRegisteredWitness ==
    /\ isRegistered
    /\ sent["register"] = 1
    /\ \E c, d \in Callers :
          /\ c # d
          /\ RegisterSettled(c) /\ call[c].path = "already" /\ call[c].result = "true"
          /\ RegisterSettled(d) /\ call[d].path = "already" /\ call[d].result = "true"

ErrorReportedOnce ==
    /\ Count("callback", "onError") <= 1
    /\ Count("emit", "error") <= 1
    /\ (regPc = "settled" /\ replies # << >> /\ \A i \in 1..Len(replies) : ~replies[i])
          => registrationPromise = [state |-> "rejected", err |-> ErrMaxAttempts]
    /\ registrationPromise.err = ErrMaxAttempts
          => /\ Count("emit", "error") = 1
             /\ config.onError => Count("callback", "onError") = 1
             /\ \A i \in 1..Len(effects) : effects[i].data = ErrMaxAttempts

\* C4 witness: the registration failed terminally, a later gateway call and
\* a later register() call were rejected as well, and the error callback and
\* the 'error' event have fired once.
ErrorReportedOnceWitness ==
    /\ registrationPromise.err = ErrMaxAttempts
    /\ config.onError
    /\ Count("callback", "onError") = 1
    /\ Count("emit", "error") = 1
    /\ ncalls = MaxCalls
    /\ \A c \in Callers : call[c].pc = "done" /\ call[c].result = ErrMaxAttempts
    /\ \E c \in Callers : call[c].op \in GatewayOps /\ call[c].path = "join"
    /\ \E c \in Callers : call[c].op = "register" /\ call[c].path = "join"

\* C5: when every handshake attempt fails, register() rejects with 'Failed
\* to register with Bullhorn after maximum attempts' after exactly
\* maxRegistrationAttempts = 4 'register' messages have been sent.
TerminalFailureAfterFourMessages ==
    registrationPromise.err = ErrMaxAttempts
       => sent["register"] = maxRegistrationAttempts

\* C6: in a session that is not embedded in a frame (window.parent is the
\* window itself, or reading it throws) register() returns false at once and
\* has no side effect: no transport message, registration status, attempt
\* counter and pending-registration slot unchanged, no callback, no event.
NotEmbeddedRegisterNoEffect ==
    frame \in {"top", "throws"}
       => /\ \A n \in MessageNames : sent[n] = 0
          /\ ~isRegistered
          /\ registrationAttempts = 0
          /\ registrationPromise = NullPromise
          /\ regPc = "none"
          /\ effects = << >>
          /\ \A c \in Callers :
                call[c].op = "register"
                   => call[c].pc = "done" /\ call[c].result = "false"

\* C6 witness: reading window.parent throws, and every call made was a
\* register() that returned false.
NotEmbeddedRegisterWitness ==
    /\ frame = "throws"
    /\ ncalls = MaxCalls
    /\ \A c \in Callers : RegisterSettled(c) /\ call[c].result = "false"

\* C7: in a session that is not embedded in a frame every gateway call fails
\* at once with 'Not running in an iframe', is never left pending or retried,
\* and no transport message is sent, not even a 'register' handshake.
NotEmbeddedGatewayFails ==
    frame \in {"top", "throws"}
       => /\ \A n \in MessageNames : sent[n] = 0
          /\ regStarts = 0
          /\ \A c \in Callers :
                call[c].op \in GatewayOps
                   => /\ call[c].pc = "done"
                      /\ call[c].result = ErrNotInIframe
                      /\ call[c].sentReg = 0
                      /\ call[c].sentVerb = 0

\* C7 witness: the window is its own parent and every call made was a
\* gateway call that failed with 'Not running in an iframe'.
NotEmbeddedGatewayWitness ==
    /\ frame = "top"
    /\ ncalls = MaxCalls
    /\ \A c \in Callers :
          /\ call[c].op \in GatewayOps
          /\ call[c].pc = "done"
          /\ call[c].result = ErrNotInIframe

\* C8: registration gate.  A gateway message is sent only while the session
\* is REGISTERED; a gateway call on an unregistered session waits for the
\* registration, and when that registration fails the call fails with the
\* registration failure and its message is never sent.
RegistrationGate ==
    [][/\ \A n \in GatewayOps : sent'[n] # sent[n] => isRegistered /\ isRegistered'
       /\ \A c \in Callers :
             (~isRegistered /\ frame = "embedded" /\ Calls(c, GatewayOps))
                => /\ call'[c].pc = "awaitReg"
                   /\ registrationPromise'.state # "null"
       /\ \A c \in Callers :
             (call'[c].op \in GatewayOps /\ ~isRegistered')
                => /\ call'[c].sentVerb = 0
                   /\ call'[c].pc # "awaitReply"
                   /\ (call'[c].pc = "done" /\ frame = "embedded")
                         => /\ registrationPromise'.state = "rejected"
                            /\ call'[c].result = registrationPromise'.err]_vars

\* C8 witness: a gateway call started the registration, the registration
\* failed terminally, and the call was rejected with that failure without
\* its message being sent.
RegistrationGateWitness ==
    \E c \in Callers :
        /\ call[c].op \in GatewayOps
        /\ call[c].path = "start"
        /\ call[c].pc = "done"
        /\ call[c].result = ErrMaxAttempts
        /\ call[c].sentReg = maxRegistrationAttempts + 1
        /\ sent[call[c].op] = 0

InvalidUrls == {TraversalUrl, AbsoluteUrl, UnauthorizedUrl, LongUrl}

\* C9 (as stated): a call of an HTTP method whose relative URL fails
\* validation fails with 'Invalid or unauthorized URL' and causes no
\* transport message at all, whatever the registration state of the
\* (embedded) session when the call is made.
InvalidUrlNoTransportAtAll ==
    \A c \in Callers :
        (frame = "embedded" /\ call[c].op \in HttpOps /\ call[c].url \in InvalidUrls)
           => /\ call[c].sentReg = 0
              /\ call[c].sentVerb = 0
              /\ call[c].pc = "done" => call[c].result = ErrInvalidUrl

\* C9 (amended): a call of an HTTP method whose relative URL fails validation
\* never sends its verb message and never returns a reply.  Made on a
\* REGISTERED session it fails at once with 'Invalid or unauthorized URL' and
\* causes no transport message.  Made on an embedded session that is not yet
\* registered it first passes the registration gate (which may send
\* 'register' messages); it then fails with 'Invalid or unauthorized URL' if
\* the registration succeeded and with the registration failure otherwise.
InvalidUrlNoVerbMessage ==
    [][\A c \in Callers :
          /\ (isRegistered /\ Calls(c, HttpOps) /\ call'[c].url \in InvalidUrls)
                => /\ call'[c].pc = "done"
                   /\ call'[c].result = ErrInvalidUrl
                   /\ sent' = sent
          /\ (call'[c].op \in HttpOps /\ call'[c].url \in InvalidUrls)
                => /\ call'[c].sentVerb = 0
                   /\ sent'[call'[c].op] = 0
                   /\ call'[c].pc # "awaitReply"
                   /\ (call'[c].pc = "done" /\ frame = "embedded")
                         => call'[c].result =
                               IF registrationPromise'.state = "rejected"
                               THEN registrationPromise'.err
                               ELSE ErrInvalidUrl]_vars

\* C9 witness: on a registered session httpGET('/unauthorized/endpoint') was
\* rejected with 'Invalid or unauthorized URL'; only the 'register' message
\* of the earlier handshake has ever been sent.
InvalidUrlWitness ==
    \E c \in Callers :
        /\ isRegistered
        /\ call[c].op = "httpGET"
        /\ call[c].url = UnauthorizedUrl
        /\ call[c].path = "pass"
        /\ call[c].result = ErrInvalidUrl
        /\ call[c].sentReg = 0
        /\ sent["register"] = 1
        /\ sent["httpGET"] = 0

\* C10: httpPOST and httpPUT with a body whose serialization is longer than
\* 1 MiB (1048576) never send their message and, once the registration gate
\* and the URL validation are passed, fail with 'Payload too large'; a body
\* whose serialization is 1048576 long or shorter is never rejected for its
\* size and its message is sent.
PayloadSizeLimit ==
    \A c \in Callers :
        (call[c].op \in BodyOps /\ call[c].body.kind \in {"string", "object"})
           => LET n == JSONStringifyLength(call[c].body)
                  checked == /\ isRegistered
                             /\ call[c].url = ValidUrl
                             /\ call[c].pc \in {"awaitReply", "done"}
              IN  /\ n > OneMiB
                     => /\ call[c].sentVerb = 0
                        /\ sent[call[c].op] = 0
                        /\ checked => call[c].result = ErrPayloadTooLarge
                  /\ n <= OneMiB
                     => /\ call[c].result # ErrPayloadTooLarge
                        /\ checked => call[c].sentVerb = 1

\* C10 witness: httpPOST of a string shorter than 1 MiB whose serialization
\* (quotes added, the double quote escaped) is 1048577 long was rejected
\* with 'Payload too large'.
PayloadSizeLimitWitness ==
    \E c \in Callers :
        /\ call[c].op = "httpPOST"
        /\ call[c].url = ValidUrl
        /\ call[c].body.kind = "string"
        /\ call[c].body.plain + call[c].body.quotes < OneMiB
        /\ JSONStringifyLength(call[c].body) = OneMiB + 1
        /\ call[c].result = ErrPayloadTooLarge
        /\ sent["httpPOST"] = 0

(* the arguments of a gateway call pass the method's own checks *)
ValidArguments(rec) ==
    /\ rec.op \in HttpOps => rec.url = ValidUrl
    /\ rec.op \in BodyOps => /\ rec.body.kind \in {"string", "object"}
                             /\ JSONStringifyLength(rec.body) <= OneMiB

\* C11: a gateway method called with valid arguments while the session is
\* registered sends exactly one message, named after the method: the HTTP
\* verbs carry the relative URL (and data for POST and PUT), open and
\* openList carry the caller's params object, refresh carries an empty
\* object; the timeout is 10000 ms except for refresh, whose timeout is
\* 5000 ms; a call answered by a reply returns the reply's data, unwrapped,
\* and has sent one message.
GatewayMessage ==
    [][\A c \in Callers :
         LET rec == call'[c] IN
         /\ (isRegistered /\ Calls(c, GatewayOps) /\ ValidArguments(rec))
               => /\ rec.pc = "awaitReply"
                  /\ rec.sentVerb = 1
                  /\ sent' = [sent EXCEPT ![rec.op] = @ + 1]
                  /\ rec.msg.name = rec.op
                  /\ rec.op \in {"httpGET", "httpDELETE"}
                        => rec.msg.payload = [relativeURL |-> ValidUrl]
                  /\ rec.op \in {"httpPOST", "httpPUT"}
                        => rec.msg.payload =
                              [relativeURL |-> ValidUrl, data |-> request.body]
                  /\ rec.op \in {"open", "openList"}
                        => rec.msg.payload = request.params
                  /\ rec.op = "refresh" => rec.msg.payload = << >>
                  /\ rec.msg.timeout = IF rec.op = "refresh" THEN 5000 ELSE 10000
         /\ (call[c].pc = "awaitReply" /\ rec.answer.kind = "reply")
               => /\ rec.pc = "done"
                  /\ rec.result = rec.answer.data
                  /\ rec.result \in {r.data : r \in Responses}
                  /\ rec.sentVerb = 1
                  /\ sent' = sent
      ]_vars

\* C11 witness: refresh(), called on a registered session, sent its message
\* with an empty payload and the 5000 ms timeout and returned the reply's
\* data.
GatewayMessageWitness ==
    \E c \in Callers :
        /\ call[c].op = "refresh"
        /\ call[c].path = "pass"
        /\ call[c].pc = "done"
        /\ call[c].msg = [name |-> "refresh", payload |-> << >>,
                          timeout |-> 5000, domain |-> "any"]
        /\ call[c].answer.kind = "reply"
        /\ call[c].result = ReplyData

(* the generic message an HTTP verb method fails with *)
GenericFailure(op) ==
    CASE op = "httpGET" -> "Failed to complete GET request"
      [] op = "httpPOST" -> "Failed to complete POST request"
      [] op = "httpPUT" -> "Failed to complete PUT request"
      [] op = "httpDELETE" -> "Failed to complete DELETE request"

\* C12: when the transport fails for a message that was sent, an HTTP verb
\* method fails with its fixed generic message, whatever the transport error
\* was, while open, openList and refresh fail with the transport error
\* itself.
TransportFailureAsymmetry ==
    \A c \in Callers :
        call[c].answer.kind = "error"
           => /\ call[c].pc = "done"
              /\ call[c].sentVerb = 1
              /\ call[c].answer.data \in TransportErrors
              /\ call[c].op \in HttpOps
                    => /\ call[c].result = GenericFailure(call[c].op)
                       /\ call[c].result \notin TransportErrors
              /\ call[c].op \in UiOps
                    => call[c].result = call[c].answer.data

\* C12 witness: the transport rejected an httpGET message with 'Network
\* error' and the call failed with 'Failed to complete GET request'.
TransportFailureAsymmetryWitness ==
    \E c \in Callers :
        /\ call[c].op = "httpGET"
        /\ call[c].answer = [kind |-> "error", data |-> "Network error"]
        /\ call[c].result = "Failed to complete GET request"

(* a pattern matched as the claims describe it: '*' matches any string,   *)
(* every other character of the pattern matches only itself, and the      *)
(* whole origin has to match                                              *)
RECURSIVE WildcardMatch(_, _)
WildcardMatch(pattern, s) ==
    IF pattern = << >> THEN s = << >>
    ELSE IF Head(pattern) = "*"
    THEN \/ WildcardMatch(Tail(pattern), s)
         \/ s # << >> /\ WildcardMatch(pattern, Tail(s))
    ELSE /\ s # << >>
         /\ Head(s) = Head(pattern)
         /\ WildcardMatch(Tail(pattern), Tail(s))

MatchesSomePattern(origin, patterns) ==
    \E i \in DOMAIN patterns :
        \/ origin = patterns[i]
        \/ Includes(patterns[i], <<"*">>) /\ WildcardMatch(patterns[i], origin)

(* the invocations an emission owes the listeners of an event *)
Owed(event, data) ==
    [i \in DOMAIN eventListeners[event] |->
        [callback |-> eventListeners[event][i], event |-> event, data |-> data]]

Made(invocations) ==
    [i \in DOMAIN invocations |->
        [callback |-> invocations[i].callback, event |-> invocations[i].event,
         data |-> invocations[i].data]]

\* C13: when a subscribed handler runs for an inbound customEvent or update
\* message, a message whose origin matches no configured pattern is rejected
\* and no listener is invoked; a message whose origin matches a pattern,
\* exactly or by wildcard, is delivered, sanitized, to every listener
\* registered under the channel's name.
InboundOriginFilter ==
    [][Len(handled') = Len(handled) + 1
         => LET h == handled'[Len(handled')] IN
            IF MatchesSomePattern(inboundMsg.origin, allowedOrigins)
            THEN /\ h.outcome = "received"
                 /\ Made(delivered') = Owed(h.channel, sanitizeEventData(inboundMsg.data))
            ELSE /\ h.outcome = "Unauthorized origin"
                 /\ delivered' = delivered
                 /\ effects' = effects
      ]_vars

\* C14: isAllowedOrigin(origin) is true exactly when the origin is identical
\* to a configured pattern or, for a pattern containing '*', the whole
\* origin matches the pattern with '*' matching any string and every other
\* pattern character matching only itself.
IsAllowedOriginIsWildcardMatch ==
    \A i \in DOMAIN handled :
        handled[i].allowed = MatchesSomePattern(inboundMsg.origin, allowedOrigins)

(* how many times a callback is registered in a list of listeners *)
Occurrences(list, callback) ==
    Cardinality({i \in DOMAIN list : list[i] = callback})

(* a list without its element at index k *)
Without(list, k) ==
    [i \in 1..(Len(list) - 1) |-> IF i < k THEN list[i] ELSE list[i + 1]]

(* off(event, callback) has removed a registration in this step *)
OffActed(event, callback) ==
    Occurrences(eventListeners'[event], callback)
        < Occurrences(eventListeners[event], callback)

\* C15 (as stated): after off(event, cb), an emission of that event no longer
\* invokes cb, while the other listeners of the event and the registrations
\* under other event names are kept.
OffStopsCallback ==
    [][\A event \in Events, callback \in Callbacks :
         OffActed(event, callback)
            => /\ \A i \in DOMAIN emit(eventListeners', event, UndefinedValue) :
                     emit(eventListeners', event, UndefinedValue)[i].callback # callback
               /\ \A other \in Callbacks \ {callback} :
                     Occurrences(eventListeners'[event], other)
                        = Occurrences(eventListeners[event], other)
               /\ \A e \in Events \ {event} : eventListeners'[e] = eventListeners[e]
      ]_vars

\* C15 (amended): off(event, cb) removes the first registration of cb under
\* the event and nothing else: an emission of the event invokes cb once
\* less than before (not at all when cb was registered once), the other
\* listeners of the event keep their registrations and their order, and
\* the listeners of every other event are unchanged.
OffRemovesOneRegistration ==
    [][\A event \in Events, callback \in Callbacks :
         OffActed(event, callback)
            => LET before == eventListeners[event]
                   after == eventListeners'[event]
                   first == CHOOSE k \in DOMAIN before :
                               /\ before[k] = callback
                               /\ \A j \in 1..(k - 1) : before[j] # callback
               IN  /\ lastOff' = [event |-> event, callback |-> callback]
                   /\ after = Without(before, first)
                   /\ Occurrences(after, callback) = Occurrences(before, callback) - 1
                   /\ Len(emit(eventListeners', event, UndefinedValue)) = Len(before) - 1
                   /\ Occurrences(before, callback) = 1
                        => \A i \in DOMAIN emit(eventListeners', event, UndefinedValue) :
                              emit(eventListeners', event, UndefinedValue)[i].callback
                                 # callback
                   /\ \A other \in Callbacks \ {callback} :
                         Occurrences(after, other) = Occurrences(before, other)
                   /\ \A e \in Events \ {event} : eventListeners'[e] = eventListeners[e]
      ]_vars

\* C15 witness: after off('customEvent', listener1) an inbound customEvent
\* was emitted and invoked listener2, still registered, and not listener1.
OffWitness ==
    /\ lastOff = [event |-> "customEvent", callback |-> "listener1"]
    /\ eventListeners["customEvent"] = <<"listener2">>
    /\ Len(delivered) = 1
    /\ delivered[1].callback = "listener2"
    /\ delivered[1].event = "customEvent"
    /\ delivered[1].after = lastOff

(* the subscriptions made to an inbound channel *)
SubscriptionsTo(channel) ==
    {i \in DOMAIN subscriptions : subscriptions[i].name = channel}

IsSubscribe(e) == e.kind = "subscribe"
IsReadyCallback(e) == e.kind = "callback" /\ e.name = "onReady"
IsReadyEmit(e) == e.kind = "emit" /\ e.name = "ready"

TerminallyFailed ==
    registrationPromise = [state |-> "rejected", err |-> ErrMaxAttempts]

FactoryCalls == {i \in DOMAIN returned : returned[i].by = "getBullhornBridge"}
ConstructorCalls == {i \in DOMAIN returned : returned[i].by = "new"}

\* C20: every call of getBullhornBridge() returns the same instance, the
\* one the first call constructed with the config of that first call,
\* whatever config later calls pass; the instances the constructor creates
\* are distinct from each other and from the default instance.
SingletonInstance ==
    /\ \A i, j \in FactoryCalls : returned[i].instance = returned[j].instance
    /\ \A i \in FactoryCalls :
          /\ returned[i].instance = defaultInstance
          /\ returned[i].instance \in DOMAIN instances
          /\ \A first \in FactoryCalls :
                (\A j \in FactoryCalls : first <= j)
                   => instances[returned[i].instance] = returned[first].config
    /\ \A i, j \in ConstructorCalls :
          i # j => returned[i].instance # returned[j].instance
    /\ \A i \in ConstructorCalls :
          /\ returned[i].instance # defaultInstance
          /\ instances[returned[i].instance] = returned[i].config
    /\ Len(instances) = Cardinality(ConstructorCalls)
                           + (IF FactoryCalls = {} THEN 0 ELSE 1)

\* C20 witness: getBullhornBridge() and then getBullhornBridge({debug: true})
\* returned the same instance, constructed without a config, and two calls
\* of the constructor returned two other instances.
SingletonInstanceWitness ==
    /\ Len(returned) = 4
    /\ returned[1] = [by |-> "getBullhornBridge", config |-> "undefined", instance |-> 1]
    /\ returned[2] = [by |-> "getBullhornBridge", config |-> "{debug: true}",
                      instance |-> 1]
    /\ instances[1] = "undefined"
    /\ returned[3].by = "new"
    /\ returned[4].by = "new"
    /\ returned[3].instance # returned[4].instance

----------------------------------------------------------------------------
(* URL validation *)

ClaimedPrefixes ==
    { <<"/","e","n","t","i","t","y","/">>, <<"/","q","u","e","r","y","/">>,
      <<"/","s","e","a","r","c","h","/">>, <<"/","m","e","t","a","/">>,
      <<"/","s","e","r","v","i","c","e","s","/">>, <<"/","f","i","n","d","/">> }

(* the four conditions, each stated on its own *)
StartsWithSlash(u) == Len(u.chars) + u.pad >= 1 /\ (u.chars # << >> => u.chars[1] = "/")
NoTraversal(u) ==
    /\ ~\E i \in 1..(Len(u.chars) - 1) : u.chars[i] = "." /\ u.chars[i + 1] = "."
    /\ ~\E i \in 1..(Len(u.chars) - 1) : u.chars[i] = "/" /\ u.chars[i + 1] = "/"
WithinLength(u) == Len(u.chars) + u.pad <= 2000
HasClaimedPrefix(u) ==
    \E p \in ClaimedPrefixes :
        /\ Len(p) <= Len(u.chars)
        /\ \A i \in 1..Len(p) : u.chars[i] = p[i]

ShouldAccept(u) ==
    StartsWithSlash(u) /\ NoTraversal(u) /\ WithinLength(u) /\ HasClaimedPrefix(u)

(* C21: validateRelativeUrl accepts a URL iff it starts with '/', contains *)
(* neither '..' nor '//', is at most 2000 characters long and starts with  *)
(* one of the six prefixes: a GET call that has passed the registration    *)
(* gate is rejected with 'Invalid or unauthorized URL' exactly when one of *)
(* the conditions fails, and otherwise goes on to send its message.        *)
UrlAcceptance ==
    /\ validateRelativeUrl(request.url) <=> ShouldAccept(request.url)
    /\ \A c \in Callers :
          /\ call[c].op \in HttpOps
          /\ call[c].pc \in {"awaitReply", "done"}
          /\ call[c].result \notin {ErrNotInIframe, ErrFailedToRegister,
                                    ErrMaxAttempts, ErrInitLibrary}
          => /\ (call[c].result = ErrInvalidUrl) <=> ~ShouldAccept(call[c].url)
             /\ ShouldAccept(call[c].url) <=> call[c].sentVerb = 1

(* a URL of exactly 2000 characters was accepted and its message answered, *)
UrlAcceptanceWitness ==
    \E c \in Callers :
        /\ call[c].op = "httpGET"
        /\ call[c].pc = "done"
        /\ UrlLength(call[c].url) = MAX_URL_LENGTH
        /\ call[c].answer.kind = "reply"

----------------------------------------------------------------------------
(* Sequential handshake attempts *)

(* the 'register' messages sent and neither answered nor failed yet *)
OutstandingRegister == sent["register"] - Len(replies)

(* C22: the handshake attempts of a session are strictly sequential: at    *)
(* most one 'register' message is outstanding in every reachable state,    *)
(* whatever the interleaving of register() and gateway calls.              *)
SequentialHandshake ==
    /\ OutstandingRegister \in {0, 1}
    /\ \A c \in Callers : call[c].sentReg <= Len(replies) + 1

(* two callers wait for the handshake, one through register() and one     *)
(* through a gateway method, while the second attempt is outstanding.     *)
SequentialHandshakeWitness ==
    /\ OutstandingRegister = 1
    /\ Len(replies) >= 1
    /\ \E c, d \in Callers :
          /\ call[c].pc = "awaitReg" /\ call[c].op = "register"
          /\ call[d].pc = "awaitReg" /\ call[d].op \in GatewayOps

----------------------------------------------------------------------------
(* Backoff before a retry *)

----------------------------------------------------------------------------
(* No retry in the gateway *)

(* C24: the gateway never retries: a gateway call whose message is         *)
(* answered, fails or times out settles having sent exactly one message    *)
(* and sends nothing more; a message of a gateway name is sent only by a   *)
(* call that has sent none before, either a call the application has just  *)
(* made or one that waited for the handshake.                              *)
NoGatewayRetry ==
    [][ /\ \A c \in Callers :
              (call[c].pc = "awaitReply" /\ call'[c] # call[c])
              => /\ call'[c].pc = "done"
                 /\ call'[c].id = call[c].id
                 /\ call'[c].sentVerb = 1
                 /\ sent' = sent
        /\ \A n \in GatewayOps :
              sent'[n] > sent[n]
              => /\ sent'[n] = sent[n] + 1
                 /\ \E c \in Callers :
                       /\ call'[c].op = n
                       /\ call'[c].pc = "awaitReply"
                       /\ call'[c].sentVerb = 1
                       /\ \/ /\ call[c].pc \in {"idle", "done"}
                             /\ call'[c].id = ncalls + 1
                             /\ ncalls' = ncalls + 1
                          \/ /\ call[c].pc = "awaitReg"
                             /\ call[c].sentVerb = 0
                             /\ call'[c].id = call[c].id
      ]_vars

(* a second call of the same method has failed as the first one did: two  *)
(* messages of that name were sent, one by each call                      *)
NoGatewayRetryWitness ==
    \E c \in Callers :
        /\ call[c].op \in GatewayOps
        /\ call[c].id >= 2
        /\ call[c].pc = "done"
        /\ call[c].answer.kind = "error"
        /\ call[c].sentVerb = 1
        /\ sent[call[c].op] = 2

----------------------------------------------------------------------------
(* The pending-registration slot *)

(* C25: the pending-registration slot is cleared on resolution: once the   *)
(* registration operation has settled, by success or by terminal failure, *)
(* this.registrationPromise is null again.                                *)
SlotClearedOnResolution ==
    regPc = "settled" => registrationPromise = NullPromise

----------------------------------------------------------------------------
(* Sanitization of inbound payloads *)

IsContainer(v) == v.t \in {"object", "array"}

XssChars == {"<", ">", "\"", "'"}

RECURSIVE CleanAtEveryDepth(_)
CleanAtEveryDepth(v) ==
    IF v.t = "string" THEN \A i \in DOMAIN v.chars : v.chars[i] \notin XssChars
    ELSE \A i \in DOMAIN v.items : CleanAtEveryDepth(v.items[i].val)

RECURSIVE Depth(_)
Depth(v) ==
    IF v.items = << >> THEN 0
    ELSE 1 + CHOOSE d \in 0..3 :
                 /\ \E i \in DOMAIN v.items : Depth(v.items[i].val) = d
                 /\ \A i \in DOMAIN v.items : Depth(v.items[i].val) <= d

(* C26: every string value, at any nesting depth, of a payload delivered  *)
(* to a customEvent or update listener contains none of < > " '.          *)
DeliveredPayloadClean ==
    \A k \in DOMAIN delivered :
        delivered[k].event \in InboundChannels => CleanAtEveryDepth(delivered[k].data)

(* a listener received the payload of a message whose strings, three      *)
(* levels down, held such characters                                      *)
DeliveredPayloadCleanWitness ==
    /\ ~CleanAtEveryDepth(inboundMsg.data)
    /\ Depth(inboundMsg.data) = 3
    /\ \E k \in DOMAIN delivered :
          /\ delivered[k].event \in InboundChannels
          /\ Depth(delivered[k].data) = 3

RECURSIVE SameShape(_, _)
SameShape(in, out) ==
    IF in.t = "string"
    THEN out.t = "string"
         /\ out.chars = SelectSeq(in.chars, LAMBDA ch : ch \notin XssChars)
    ELSE IF IsContainer(in)
    THEN /\ out.t = in.t
         /\ Len(out.items) = Len(in.items)
         /\ \A i \in DOMAIN in.items :
               /\ out.items[i].key = in.items[i].key
               /\ SameShape(in.items[i].val, out.items[i].val)
    ELSE out = in

(* C27: sanitization preserves the shape of the payload: an object yields *)
(* an object with the same keys, an array an array of the same length     *)
(* whose i-th element is the sanitized i-th element, any other value that *)
(* is not a string is passed through unchanged.                           *)
SanitizationPreservesShape ==
    \A k \in DOMAIN delivered :
        delivered[k].event \in InboundChannels
        => SameShape(inboundMsg.data, delivered[k].data)

----------------------------------------------------------------------------
(* Rejected inbound messages *)

(* the step in which a handler rejects a message with 'Unauthorized origin' *)
Rejects ==
    /\ Len(handled') = Len(handled) + 1
    /\ handled'[Len(handled')].outcome = "Unauthorized origin"

(* C28: rejecting an inbound message from an unrecognized origin has no    *)
(* effect on the session: registration status, pending registration,      *)
(* attempt counter, subscriptions and listener registry are unchanged, no *)
(* event is emitted and no listener of any event is invoked.              *)
RejectionHasNoEffect ==
    [][ Rejects => /\ ~handled'[Len(handled')].allowed
                   /\ handled'[Len(handled')].emission = 0
                   /\ isRegistered' = isRegistered
                   /\ registrationPromise' = registrationPromise
                   /\ registrationAttempts' = registrationAttempts
                   /\ regPc' = regPc
                   /\ sent' = sent
                   /\ subscriptions' = subscriptions
                   /\ eventListeners' = eventListeners
                   /\ effects' = effects
                   /\ delivered' = delivered
      ]_vars

(* a message was rejected on a channel that has listeners, after one that *)
(* was rejected too: the listeners have not been invoked                  *)
RejectionHasNoEffectWitness ==
    /\ Len(handled) = 2
    /\ \A k \in DOMAIN handled :
          /\ handled[k].outcome = "Unauthorized origin"
          /\ eventListeners[handled[k].channel] # << >>
    /\ isRegistered
    /\ delivered = << >>

----------------------------------------------------------------------------
(* The listener registry and emit *)

(* this step emits an event: the emission is the last effect logged *)
Emits ==
    /\ Len(effects') > Len(effects)
    /\ effects'[Len(effects')].kind = "emit"

Emitted == effects'[Len(effects')].name

(* the data the session emits an event with *)
EmittedData(event) ==
    IF event \in InboundChannels THEN sanitizeEventData(inboundMsg.data)
    ELSE IF event = "ready" THEN UndefinedValue
    ELSE ErrorValue(ErrMaxAttempts)

----------------------------------------------------------------------------
(* off() and the first registration *)

(* the invocations of a callback in the latest emission *)
Invocations(callback) ==
    Cardinality({i \in DOMAIN delivered : delivered[i].callback = callback})

(* s is t with its element at index k taken out *)
IsWithout(s, t, k) ==
    /\ Len(s) = Len(t) - 1
    /\ \A i \in DOMAIN s : s[i] = IF i < k THEN t[i] ELSE t[i + 1]

(* C30: off(event, cb) removes only the first registration of cb under    *)
(* the event.  When cb is registered k >= 1 times the registry afterwards *)
(* is the one before with the first cb taken out: k - 1 registrations of  *)
(* cb, the other listeners in their relative order, other events as they  *)
(* were; every emission invokes a callback as many times as it is         *)
(* registered under the emitted name.  off for a callback that is not     *)
(* registered under the event, or an event without listeners, gives the   *)
(* registry unchanged.                                                    *)
OffRemovesFirstOnly ==
    /\ [](\A event \in Events, callback \in Callbacks :
            LET before == eventListeners[event]
                after == off(eventListeners, event, callback)[event]
                k == Occurrences(before, callback)
            IN  /\ k = 0 => off(eventListeners, event, callback) = eventListeners
                /\ k >= 1 =>
                     /\ \E first \in DOMAIN before :
                           /\ before[first] = callback
                           /\ \A j \in 1..(first - 1) : before[j] # callback
                           /\ IsWithout(after, before, first)
                     /\ Occurrences(after, callback) = k - 1
                     /\ \A e \in Events \ {event} :
                           off(eventListeners, event, callback)[e] = eventListeners[e])
    /\ [][ /\ eventListeners' # eventListeners
              => \E event \in Events, callback \in Callbacks :
                    /\ Occurrences(eventListeners[event], callback) >= 1
                    /\ lastOff' = [event |-> event, callback |-> callback]
                    /\ \E first \in DOMAIN eventListeners[event] :
                          /\ eventListeners[event][first] = callback
                          /\ \A j \in 1..(first - 1) : eventListeners[event][j] # callback
                          /\ IsWithout(eventListeners'[event], eventListeners[event], first)
                    /\ \A e \in Events \ {event} : eventListeners'[e] = eventListeners[e]
           /\ Emits
              => \A callback \in Callbacks :
                    Cardinality({i \in DOMAIN delivered' :
                                    delivered'[i].callback = callback})
                       = Occurrences(eventListeners[Emitted], callback)
         ]_vars

(* listener1 was registered twice around listener2; after one             *)
(* off('customEvent', listener1) an emission invoked listener2 and then   *)
(* listener1, once each                                                   *)
OffRemovesFirstOnlyWitness ==
    /\ lastOff = [event |-> "customEvent", callback |-> "listener1"]
    /\ eventListeners["customEvent"] = <<"listener2", "listener1">>
    /\ Len(delivered) = 2
    /\ delivered[1].callback = "listener2"
    /\ delivered[2].callback = "listener1"
    /\ delivered[1].after = lastOff
    /\ Invocations("listener1") = 1

----------------------------------------------------------------------------
(* Credentials from the query string and the fragment *)

(* the accepted parameter names of a field, aliases included *)
AcceptedNames(key) ==
    CASE key = "corporationId" -> {"corporationId", "corp"}
      [] key = "privateLabelId" -> {"privateLabelId", "plid"}
      [] key = "userId" -> {"userId", "uid"}
      [] key = "restUrl" -> {"restUrl"}
      [] key = "restToken" -> {"BhRestToken", "restToken"}

Given(params, key) == {n \in AcceptedNames(key) : params[n].kind = "string"}

(* C31: every accepted parameter name, aliases included, is resolved from *)
(* the fragment when the query string leaves the field unset, and the     *)
(* fragment is not consulted for a field the query string populated.      *)
CredentialsFromFragment ==
    (constructed /\ frame = "embedded")
    => \A key \in CredentialFields :
          /\ (Given(location.search, key) = {} /\ Given(location.hash, key) # {})
                => /\ ~Falsy(credentials[key])
                   /\ credentials[key].from.part = "fragment"
                   /\ credentials[key].from.name \in Given(location.hash, key)
          /\ (\E n \in Given(location.search, key) :
                   location.search[n].chars = GoodChars(key, "query"))
                => credentials[key].from.part = "query"

----------------------------------------------------------------------------
(* isReady() *)

(* C32: isReady() is monotonic: once the session is registered no         *)
(* register() call, gateway call, transport failure, listener change or   *)
(* inbound message makes isReady() false again.                           *)
ReadyIsMonotonic ==
    [][isReady => isReady']_vars

(* the session is still ready after a later register() call, a gateway    *)
(* call whose message failed, a removed listener and an inbound message   *)
ReadyIsMonotonicWitness ==
    /\ isReady
    /\ ncalls >= 3
    /\ \E c \in Callers : call[c].op = "refresh" /\ call[c].answer.kind = "error"
    /\ lastOff # NoOff
    /\ handled # << >>

----------------------------------------------------------------------------
(* Bounds of the attempt counter *)

(* C33: in every reachable state 0 <= registrationAttempts <= 4 and the   *)
(* session has sent at most registrationAttempts + 1 'register' messages, *)
(* hence never more than 5.                                               *)
AttemptBounds ==
    /\ 0 <= registrationAttempts
    /\ registrationAttempts <= 4
    /\ sent["register"] <= registrationAttempts + 1
    /\ sent["register"] <= 5
    /\ Len(replies) <= sent["register"]

(* the terminal failure: four retries counted, five messages sent *)
AttemptBoundsWitness ==
    /\ registrationAttempts = 4
    /\ sent["register"] = 5
    /\ replies = <<FALSE, FALSE, FALSE, FALSE, FALSE>>
    /\ regPc = "settled"

----------------------------------------------------------------------------
(* The session after a terminal failure *)

----------------------------------------------------------------------------
(* A handshake that succeeded *)

Answered == \E i \in DOMAIN replies : replies[i]

(* C35: no 'register' message is sent while the session is registered,    *)
(* and a handshake that received a successful reply is followed neither   *)
(* by a retry nor by a terminal failure, also when the ready callback     *)
(* throws: a registered session has no 'register' message outstanding and *)
(* no backoff pending, the successful reply is the last one, and the      *)
(* registration has not failed.                                           *)
NoRegisterWhileRegistered ==
    /\ isReady => (OutstandingRegister = 0 /\ regPc \notin {"sent", "backoff"})
    /\ Answered
         => /\ replies[Len(replies)]
            /\ Cardinality({i \in DOMAIN replies : replies[i]}) = 1
            /\ registrationAttempts = Len(replies) - 1
            /\ ~TerminallyFailed

----------------------------------------------------------------------------
(* Concurrent gateway calls on a fresh session *)

(* every caller has made one gateway call, all of them before the         *)
(* registration they wait for has settled                                 *)
ConcurrentGatewayCalls ==
    /\ frame = "embedded"
    /\ ncalls = Cardinality(Callers)
    /\ \A c \in Callers :
          call[c].op \in GatewayOps /\ call[c].path \in {"start", "join"}

----------------------------------------------------------------------------
(* Termination of the calls *)

(* Two callers, so that one call can join the registration of the other. *)
TerminationCallers == {1, 2}

(* The configurations of the termination runs: callbacks that return and *)
(* a ready callback that throws.                                         *)
TerminationConfigs ==
    { [onReady |-> TRUE, onError |-> TRUE, readyThrows |-> FALSE],
      [onReady |-> TRUE, onError |-> TRUE, readyThrows |-> TRUE] }

InitTermination ==
    /\ frame \in Frames
    /\ config \in TerminationConfigs
    /\ request = [op |-> "httpGET", url |-> ValidUrl, body |-> NoBody, params |-> NoParams]
    /\ allowedOrigins = DefaultAllowedOrigins
    /\ inboundMsg = [origin |-> AppBullhorn, data |-> ScriptString]
    /\ eventListeners = NoListeners
    /\ InitSession
    /\ InitModule
    /\ InitPage
    /\ InitInputs

NextTermination ==
    \/ LibLoaded
    \/ LibFailed
    \/ \E c \in TerminationCallers : Register(c)
    \/ \E c \in TerminationCallers : Gateway(c)
    \/ RegAfterInit
    \/ RegisterReplied
    \/ RegisterFailed
    \/ BackoffElapsed
    \/ \E c \in TerminationCallers : Resume(c)
    \/ \E c \in TerminationCallers : VerbReplied(c)
    \/ \E c \in TerminationCallers : VerbFailed(c)

(* Every await of the code is eventually resumed: the dynamic import of   *)
(* the library settles, sendToParent answers or times out (5000 ms for    *)
(* 'register', 10000 ms for 'httpGET'), the backoff timer (setTimeout of  *)
(* waitTime) fires, and the event loop runs the continuation of a settled *)
(* promise.                                                               *)
Fairness ==
    /\ WF_vars(LibLoaded \/ LibFailed)
    /\ WF_vars(RegAfterInit)
    /\ WF_vars(RegisterReplied \/ RegisterFailed)
    /\ WF_vars(BackoffElapsed)
    /\ \A c \in TerminationCallers : WF_vars(Resume(c))
    /\ \A c \in TerminationCallers : WF_vars(VerbReplied(c) \/ VerbFailed(c))

SpecTermination == InitTermination /\ [][NextTermination]_vars /\ Fairness

(* a call of caller c is in flight *)
InFlight(c) == call[c].pc \notin {"idle", "done"}

(* C38: provided the library import settles, every transport send is      *)
(* answered or times out and every backoff timer fires, every register()  *)
(* call and every gateway call eventually settles, the calls that joined  *)
(* an in-flight registration included.                                    *)
EveryCallSettles ==
    \A c \in TerminationCallers : InFlight(c) ~> (call[c].pc = "done")

(* a call that joined the registration of another caller has settled with *)
(* the error of the failed registration                                   *)
EveryCallSettlesWitness ==
    \E c \in TerminationCallers :
        /\ call[c].path = "join"
        /\ call[c].pc = "done"
        /\ regOwner # c
        /\ call[c].result = ErrMaxAttempts
        /\ call[regOwner].pc = "done"

----------------------------------------------------------------------------
(* The registration input *)

InitInputsSpec ==
    /\ frame = "embedded"
    /\ config = [onReady |-> FALSE, onError |-> FALSE, readyThrows |-> FALSE]
    /\ request = [op |-> "refresh", url |-> NoUrl, body |-> NoBody, params |-> NoParams]
    /\ allowedOrigins = DefaultAllowedOrigins
    /\ inboundMsg = [origin |-> AppBullhorn, data |-> ScriptString]
    /\ eventListeners = NoListeners
    /\ inputs \in [Callers -> RegisterInputs]
    /\ onInvoke = [cb \in Callbacks |-> NoOff]
    /\ InitSession
    /\ InitModule
    /\ InitPage

NextInputs ==
    \/ LibLoaded
    \/ \E c \in Callers : Register(c)
    \/ \E c \in Callers : Gateway(c)
    \/ RegAfterInit
    \/ RegisterReplied
    \/ RegisterFailed
    \/ BackoffElapsed
    \/ \E c \in Callers : Resume(c)

SpecInputs == InitInputsSpec /\ [][NextInputs]_vars

(* caller c holds the call that claimed the pending-registration slot *)
Claimed(c) == regOwner = c /\ call[c].path = "start"

(* what the call of caller c passed to register(): its argument, and     *)
(* nothing when the call is a gateway call                               *)
Passed(c) == IF call[c].op = "register" THEN inputs[c] ELSE NoInput

(* the payload the spec derives from an argument: each field as given,   *)
(* or its default when it is missing or empty                            *)
Defaulted(arg) ==
    [title |-> IF arg.title \in {Missing, ""} THEN "Custom Integration" ELSE arg.title,
     url   |-> IF arg.url \in {Missing, ""} THEN Href ELSE arg.url,
     color |-> IF arg.color \in {Missing, ""} THEN "#0070c0" ELSE arg.color]

(* C39: the input of the caller that claims the pending-registration     *)
(* slot is used for the whole registration: every 'register' message,    *)
(* the retries included, carries that caller's {title, url, color} with  *)
(* the defaults applied, and the input of a call that joins is not sent. *)
FirstCallerInputUsed ==
    \A c \in Callers :
        Claimed(c) =>
            \A k \in DOMAIN registerMsgs : registerMsgs[k] = Defaulted(Passed(c))

(* the slot was claimed with a title and an empty color, a register()    *)
(* call with another title, url and color joined, and the message and    *)
(* its retry both carry the first title with the default url and color   *)
FirstCallerInputUsedWitness ==
    \E c, d \in Callers :
        /\ Claimed(c)
        /\ call[c].op = "register"
        /\ inputs[c] = [title |-> "Notes", url |-> Missing, color |-> ""]
        /\ call[d].path = "join"
        /\ call[d].op = "register"
        /\ inputs[d].title = "Tasks"
        /\ Len(registerMsgs) >= 2
        /\ registerMsgs[2] = [title |-> "Notes", url |-> Href, color |-> "#0070c0"]

----------------------------------------------------------------------------
(* Listeners that call off() during the dispatch *)

(* The registrations of the dispatch runs: two listeners of 'customEvent', *)
(* and a third registration behind them.                                   *)
DispatchSetups ==
    { on(on(NoListeners, "customEvent", "listener1"), "customEvent", "listener2"),
      on(on(on(NoListeners, "customEvent", "listener1"), "customEvent", "listener2"),
         "customEvent", "listener1") }

InitDispatch ==
    /\ frame = "embedded"
    /\ config = [onReady |-> FALSE, onError |-> FALSE, readyThrows |-> FALSE]
    /\ request = [op |-> "refresh", url |-> NoUrl, body |-> NoBody, params |-> NoParams]
    /\ allowedOrigins = DefaultAllowedOrigins
    /\ inboundMsg = [origin |-> AppBullhorn, data |-> ScriptString]
    /\ eventListeners \in DispatchSetups
    /\ inputs = [c \in Callers |-> NoInput]
    /\ onInvoke \in [Callbacks -> OffCalls \cup {NoOff}]
    /\ InitSession
    /\ InitModule
    /\ InitPage

NextDispatch ==
    \/ LibLoaded
    \/ \E c \in RelayCallers : Register(c)
    \/ RegAfterInit
    \/ RegisterReplied
    \/ \E c \in RelayCallers : Resume(c)
    \/ \E i \in DOMAIN subscriptions : Dispatch(i)

SpecDispatch == InitDispatch /\ [][NextDispatch]_vars

(* an emission of the inbound message starts in this step *)
EmissionStarts == Len(handled') = Len(handled) + 1

(* the event of the emission that starts in this step *)
EmittedEvent == handled'[Len(handled')].channel

(* C40: one emission invokes exactly once, in insertion order, every      *)
(* listener registered under the event name when the emission starts,     *)
(* even when a listener calls off(), on itself or on another listener of  *)
(* the same event, during the dispatch.                                   *)
EmissionReachesEveryListener ==
    [][ EmissionStarts =>
          [k \in DOMAIN delivered' |-> delivered'[k].callback]
              = eventListeners[EmittedEvent] ]_vars

----------------------------------------------------------------------------
(* Inbound messages before the handshake *)

(* an inbound message arrives in this step *)
Arrives == Len(handled') = Len(handled) + 1

(* C37: listeners for 'customEvent' and 'update' are invoked only for     *)
(* inbound messages received after a successful handshake: whenever such  *)
(* a listener has been invoked isReady() was true at the invocation and   *)
(* is true now, and a message that arrives while the session is not       *)
(* registered is handled by no handler, emits nothing and invokes no      *)
(* listener.                                                              *)
InboundOnlyWhenReady ==
    /\ [](\A k \in DOMAIN delivered :
            delivered[k].event \in InboundChannels => (delivered[k].ready /\ isReady))
    /\ [][ (Arrives /\ ~isReady)
             => /\ handled'[Len(handled')].outcome = "no handler"
                /\ effects' = effects
                /\ delivered' = delivered
                /\ eventListeners' = eventListeners
         ]_vars

(* a 'customEvent' message arrived before the handshake had succeeded and *)
(* reached no handler; one that arrived afterwards was delivered to the   *)
(* two listeners                                                          *)
InboundOnlyWhenReadyWitness ==
    /\ Len(handled) = 2
    /\ handled[1].outcome = "no handler"
    /\ handled[2].outcome = "received"
    /\ Len(delivered) = 2
    /\ \A k \in DOMAIN delivered : delivered[k].event = "customEvent" /\ delivered[k].ready

====
